---- MODULE Spec2Model ----
(***************************************************************************)
(* Model of the filtrum query-string filter parser.                        *)
(*                                                                         *)
(* A string is a sequence of one-character strings.  The parse entry       *)
(* points are pure functions of (search_id, value); each is an operator    *)
(* computed as the Rust code computes it, and each is applied by one       *)
(* action to the inputs drawn in Init.                                     *)
(***************************************************************************)
EXTENDS Integers, Sequences, FiniteSets, TLC

VARIABLES
    called,       \* the entry point applied last ("none" before the first)
    search_id,    \* the target identifier handed to the entry point
    value,        \* the raw query string
    result,       \* what the entry point returned
    filter_id,    \* the FilterId handed to from_id_value (None: not used)
    prefix_arg,   \* the prefix handed to OrderBy::from_str_prefix
    QUERY_REGEX,  \* the OnceLock<Regex> of src/src/regex.rs
    sql,          \* the text pushed to the sqlx QueryBuilder by apply
    seen,         \* the (entry point, result) pairs of the parses made so far
    pc,           \* each thread's position inside query_regex()
    got,          \* the grammar each thread's last query_regex() returned
    once,         \* the state of the Once guarding QUERY_REGEX
    inits,        \* how many times the initialiser of QUERY_REGEX has run
    decl,         \* the field declaration handed to derive(Filterable)
    uri_query,    \* parts.uri.query() of the request handed to the extractor
    response      \* the HTTP response of a rejected request (None: no rejection)

vars == <<called, search_id, value, result, filter_id, prefix_arg, QUERY_REGEX,
         sql, seen, pc, got, once, inits, decl, uri_query, response>>

----------------------------------------------------------------------------
(* Character classes of the token grammar (src/src/regex.rs:8).            *)

Lower == {"a","b","c","d","e","f","g","h","i","j","k","l","m",
          "n","o","p","q","r","s","t","u","v","w","x","y","z"}

Upper == {"A","B","C","D","E","F","G","H","I","J","K","L","M",
          "N","O","P","Q","R","S","T","U","V","W","X","Y","Z"}

Digit == {"0","1","2","3","4","5","6","7","8","9"}

\* \w
Word == Lower \cup Upper \cup Digit \cup {"_"}

\* [a-z]
OpChar == Lower

DigitVal(c) ==
    CASE c = "0" -> 0 [] c = "1" -> 1 [] c = "2" -> 2 [] c = "3" -> 3
      [] c = "4" -> 4 [] c = "5" -> 5 [] c = "6" -> 6 [] c = "7" -> 7
      [] c = "8" -> 8 [] c = "9" -> 9

----------------------------------------------------------------------------
(* Result<T, FilterParseError> and Option<T>.                              *)

FilterStructure == "FilterStructure"
Value == "Value"
UnknownFilter == "UnknownFilter"

FilterParseError == {FilterStructure, Value, UnknownFilter}

Ok(v) == [tag |-> "Ok", v |-> <<v>>, e |-> "-"]
Err(e) == [tag |-> "Err", v |-> <<>>, e |-> e]

IsOk(r) == r.tag = "Ok"
IsErr(r) == r.tag = "Err"
Unwrap(r) == r.v[1]

None == <<>>
Some(x) == <<x>>

----------------------------------------------------------------------------
(* str helpers: split('&'), split_once('='), maximal character runs.       *)

RECURSIVE find(_, _, _)
\* index of the first occurrence of c in s at or after i, 0 when there is none
find(s, c, i) ==
    IF i > Len(s) THEN 0
    ELSE IF s[i] = c THEN i
    ELSE find(s, c, i + 1)

RECURSIVE split(_, _)
\* str::split: always at least one part, empty parts are kept
split(s, c) ==
    LET i == find(s, c, 1)
    IN IF i = 0 THEN <<s>>
       ELSE <<SubSeq(s, 1, i - 1)>> \o split(SubSeq(s, i + 1, Len(s)), c)

\* str::split_once: None, or Some(<<before, after>>) around the first c
split_once(s, c) ==
    LET i == find(s, c, 1)
    IN IF i = 0 THEN None
       ELSE Some(<<SubSeq(s, 1, i - 1), SubSeq(s, i + 1, Len(s))>>)

RECURSIVE run(_, _, _)
\* length of the maximal run of characters of class cls starting at s[i]
run(s, cls, i) ==
    IF i > Len(s) THEN 0
    ELSE IF s[i] \in cls THEN 1 + run(s, cls, i + 1)
    ELSE 0

RECURSIVE first_in(_, _, _)
\* index of the first character of class cls at or after i, 0 when none
first_in(s, cls, i) ==
    IF i > Len(s) THEN 0
    ELSE IF s[i] \in cls THEN i
    ELSE first_in(s, cls, i + 1)

----------------------------------------------------------------------------
(* Token grammar: (\w+)(\[([a-z]+)])?(\[(\d+)])?  searched with            *)
(* Regex::captures, i.e. the leftmost match anywhere in the key.           *)

\* One optional group \[(cls+)] tried at position p: the length of the
\* captured run, 0 when the group does not take part in the match.
group_closed(s, p, n) ==
    IF n > 0 /\ p + 1 + n <= Len(s) /\ s[p + 1 + n] = "]" THEN n ELSE 0

group(s, p, cls) ==
    IF p <= Len(s) /\ s[p] = "[" THEN group_closed(s, p, run(s, cls, p + 1)) ELSE 0

\* the capture groups 1, 3 and 5 of the match that starts at st, whose name
\* ends before p2, with an operator group of length n3 (from p2) and an index
\* group of length n5 (from p4)
captures_groups(s, st, p2, n3, p4, n5) ==
    Some([g1 |-> Some(SubSeq(s, st, p2 - 1)),
          g3 |-> IF n3 > 0 THEN Some(SubSeq(s, p2 + 1, p2 + n3)) ELSE None,
          g5 |-> IF n5 > 0 THEN Some(SubSeq(s, p4 + 1, p4 + n5)) ELSE None])

\* faulty variant: the index group never takes part in the match
captures_index_dropped(s, st, p2, n3, p4) ==
    captures_groups(s, st, p2, n3, p4, 0)

\* (\[(\d+)])? after the operator group
captures_index(s, st, p2, n3, p4) ==
    captures_groups(s, st, p2, n3, p4, group(s, p4, Digit))

\* (\[([a-z]+)])? after the name
captures_op(s, st, p2, n3) ==
    captures_index(s, st, p2, n3, IF n3 > 0 THEN p2 + n3 + 2 ELSE p2)

\* (\w+) is greedy: the maximal run of word characters from st
captures_name(s, st, p2) == captures_op(s, st, p2, group(s, p2, OpChar))

captures_from(s, st) ==
    IF st = 0 THEN None ELSE captures_name(s, st, st + run(s, Word, st))

\* Regex::captures on the compiled QUERY_REGEX: None when no position of s
\* starts a match, otherwise the groups of the leftmost match, which starts
\* at the first word character of s.
captures(s) == captures_from(s, first_in(s, Word, 1))

\* the pattern handed to Regex::new
Regex_new == "(\\w+)(\\[([a-z]+)])?(\\[(\\d+)])?"

\* Regex::captures(re, s); the matcher above is the one of Regex_new, the only
\* pattern the crate compiles
Regex_captures(re, s) == IF re = Regex_new THEN captures(s) ELSE None

\* faulty variant: the call that initialises the cell hands back an empty
\* grammar instead of the one it stores
OnceLock_get_or_init_stale(cell, init) == IF cell = None THEN "" ELSE cell[1]

\* OnceLock::get_or_init: the stored value, or `init` when the cell is unset
OnceLock_get_or_init(cell, init) == IF cell = None THEN init ELSE cell[1]

\* the cell after get_or_init
OnceLock_set(cell, init) == IF cell = None THEN Some(init) ELSE cell

\* query_regex().captures(key)
query_regex(key) == Regex_captures(OnceLock_get_or_init(QUERY_REGEX, Regex_new), key)

----------------------------------------------------------------------------
(* Scalar conversions V::from_str used by value.parse().                   *)

I32_MAX == 2147483647

RECURSIVE parse_digits(_, _, _, _)
\* checked accumulation of ASCII digits from s[i]; sign is 1 or -1;
\* None on a non-digit or on overflow of the i32 range
parse_digits(s, i, acc, sign) ==
    IF i > Len(s) THEN Some(acc)
    ELSE IF s[i] \notin Digit THEN None
    ELSE LET d == DigitVal(s[i])
         IN IF sign = 1
            THEN IF acc > (I32_MAX - d) \div 10 THEN None
                 ELSE parse_digits(s, i + 1, acc * 10 + d, sign)
            ELSE IF acc < 0 - (IF d = 0 THEN I32_MAX \div 10
                               ELSE (I32_MAX - d + 1) \div 10) THEN None
                 ELSE parse_digits(s, i + 1, acc * 10 - d, sign)

\* <i32 as FromStr>::from_str
parse_i32(s) ==
    IF s = <<>> THEN None
    ELSE IF s[1] = "-" THEN (IF Len(s) = 1 THEN None ELSE parse_digits(s, 2, 0, -1))
    ELSE IF s[1] = "+" THEN (IF Len(s) = 1 THEN None ELSE parse_digits(s, 2, 0, 1))
    ELSE parse_digits(s, 1, 0, 1)

U64_MAX == <<"1","8","4","4","6","7","4","4","0","7","3","7","0","9","5","5","1","6","1","5">>

RECURSIVE digits_le(_, _, _)
\* a <= b for two digit strings of the same length, compared from index i
digits_le(a, b, i) ==
    IF i > Len(a) THEN TRUE
    ELSE IF DigitVal(a[i]) < DigitVal(b[i]) THEN TRUE
    ELSE IF DigitVal(a[i]) > DigitVal(b[i]) THEN FALSE
    ELSE digits_le(a, b, i + 1)

RECURSIVE strip_zeros(_)
\* the decimal numeral without leading zeros ("0" for zero)
strip_zeros(s) ==
    IF Len(s) > 1 /\ s[1] = "0" THEN strip_zeros(Tail(s)) ELSE s

\* <u64 as FromStr>::from_str; a u64 is kept as its canonical decimal
\* numeral because 2^64 exceeds the integers TLC can hold
parse_u64(s) ==
    LET body == IF s # <<>> /\ s[1] = "+" THEN Tail(s) ELSE s
    IN IF body = <<>> THEN None
       ELSE IF \E i \in 1..Len(body) : body[i] \notin Digit THEN None
       ELSE LET n == strip_zeros(body)
            IN IF Len(n) < Len(U64_MAX) THEN Some(n)
               ELSE IF Len(n) = Len(U64_MAX) /\ digits_le(n, U64_MAX, 1) THEN Some(n)
               ELSE None

\* <bool as FromStr>::from_str
parse_bool(s) ==
    IF s = <<"t","r","u","e">> THEN Some(TRUE)
    ELSE IF s = <<"f","a","l","s","e">> THEN Some(FALSE)
    ELSE None

\* <String as FromStr>::from_str never fails and copies the text
parse_String(s) == Some(s)

\* value.parse::<V>()
parse(V, s) ==
    CASE V = "i32" -> parse_i32(s)
      [] V = "bool" -> parse_bool(s)
      [] V = "String" -> parse_String(s)
      [] V = "u64" -> parse_u64(s)

----------------------------------------------------------------------------
(* FilterId (src/src/filter_id.rs).                                        *)

Alone(id) == <<"Alone", id>>
WithPrefix(prefix, id) == <<"WithPrefix", prefix, id>>
WithPrefixAndAlias(prefix, id, alias) == <<"WithPrefixAndAlias", prefix, id, alias>>

\* faulty variant: looks the field up by its emission name
FilterId_id_alias(f) ==
    CASE f[1] = "Alone" -> f[2]
      [] f[1] = "WithPrefix" -> f[3]
      [] f[1] = "WithPrefixAndAlias" -> f[4]

\* FilterId::id
FilterId_id(f) ==
    CASE f[1] = "Alone" -> f[2]
      [] f[1] = "WithPrefix" -> f[3]
      [] f[1] = "WithPrefixAndAlias" -> f[3]

\* FilterId::prefix
FilterId_prefix(f) ==
    CASE f[1] = "Alone" -> None
      [] f[1] = "WithPrefix" -> Some(f[2])
      [] f[1] = "WithPrefixAndAlias" -> Some(f[2])

\* FilterId::key
FilterId_key(f) ==
    CASE f[1] = "Alone" -> f[2]
      [] f[1] = "WithPrefix" -> f[3]
      [] f[1] = "WithPrefixAndAlias" -> f[4]

\* impl From<String> for FilterId
FilterId_from(s) == Alone(s)

----------------------------------------------------------------------------
(* Operator codes and the FromStrFilter implementations (decode).          *)

op_eq == <<"e","q">>
op_ne == <<"n","e">>
op_gt == <<"g","t">>
op_lt == <<"l","t">>
op_gte == <<"g","t","e">>
op_lte == <<"l","t","e">>
op_like == <<"l","i","k","e">>
op_l == <<"l">>
op_not_like == <<"n","o","t","_","l","i","k","e">>
op_nl == <<"n","l">>
op_starts_with == <<"s","t","a","r","t","s","_","w","i","t","h">>
op_sw == <<"s","w">>
op_ends_with == <<"e","n","d","s","_","w","i","t","h">>
op_ew == <<"e","w">>
op_contains == <<"c","o","n","t","a","i","n","s">>
op_c == <<"c">>

\* a decoded comparison, e.g. NumberFilter::Gte(18)
Variant(name, v) == <<name, v>>

\* faulty variant: an unrecognised operator code is decoded as Eq
NumberFilter_from_str_default_eq(id, v) ==
    CASE id = op_ne -> Ok(Variant("Ne", v))
      [] id = op_gt -> Ok(Variant("Gt", v))
      [] id = op_lt -> Ok(Variant("Lt", v))
      [] id = op_gte -> Ok(Variant("Gte", v))
      [] id = op_lte -> Ok(Variant("Lte", v))
      [] OTHER -> Ok(Variant("Eq", v))

\* impl FromStrFilter<T> for NumberFilter<T>
NumberFilter_from_str(id, v) ==
    CASE id = op_eq -> Ok(Variant("Eq", v))
      [] id = op_ne -> Ok(Variant("Ne", v))
      [] id = op_gt -> Ok(Variant("Gt", v))
      [] id = op_lt -> Ok(Variant("Lt", v))
      [] id = op_gte -> Ok(Variant("Gte", v))
      [] id = op_lte -> Ok(Variant("Lte", v))
      [] OTHER -> Err(UnknownFilter)

\* impl FromStrFilter<T> for StringFilter<T>
StringFilter_from_str(id, v) ==
    CASE id = op_eq -> Ok(Variant("Eq", v))
      [] id = op_ne -> Ok(Variant("Ne", v))
      [] id = op_like \/ id = op_l -> Ok(Variant("Like", v))
      [] id = op_not_like \/ id = op_nl -> Ok(Variant("NotLike", v))
      [] id = op_starts_with \/ id = op_sw -> Ok(Variant("StartsWith", v))
      [] id = op_ends_with \/ id = op_ew -> Ok(Variant("EndsWith", v))
      [] id = op_contains \/ id = op_c -> Ok(Variant("Contains", v))
      [] OTHER -> Err(UnknownFilter)

\* EqualFilter<T>(pub Option<T>, pub Option<FilterId>)
EqualFilter(v, id) == [value |-> v, id |-> id]

\* faulty variant: only the code eq is accepted
EqualFilter_FromStrFilter_eq_only(filter_key, v) ==
    IF filter_key = op_eq THEN Ok(EqualFilter(Some(v), Some(FilterId_from(<<>>))))
    ELSE Err(UnknownFilter)

\* impl FromStrFilter<T> for EqualFilter<T>: the operator code is ignored
EqualFilter_FromStrFilter(filter_key, v) ==
    Ok(EqualFilter(Some(v), Some(FilterId_from(<<>>))))

\* impl FromStrFilter<i32> for MockFilter (unit tests of the extractor):
\* records the operator code and the converted value
MockFilter_from_str(filter_key, v) == Ok(<<filter_key, v>>)

\* impl FromStrFilter<u64> for Limit / Skip: Limit(value), Skip(value)
Limit_FromStrFilter(id, v) == Ok(<<"Limit", v>>)
Skip_FromStrFilter(id, v) == Ok(<<"Skip", v>>)

op_asc == <<"a","s","c">>
op_desc == <<"d","e","s","c">>

\* faulty variant: every code other than desc sorts ascending
OrderBy_FromStrFilter_default_asc(id, v) ==
    IF id = op_desc THEN Ok(<<"Desc", FilterId_from(v)>>)
    ELSE Ok(<<"Asc", FilterId_from(v)>>)

\* impl FromStrFilter<String> for OrderBy
OrderBy_FromStrFilter(id, v) ==
    CASE id = op_asc -> Ok(<<"Asc", FilterId_from(v)>>)
      [] id = op_desc -> Ok(<<"Desc", FilterId_from(v)>>)
      [] OTHER -> Err(UnknownFilter)

\* The instantiations <V, T> of the generic extractor that are modelled.
Limit_u64 == [F |-> "Limit", V |-> "u64"]
Skip_u64 == [F |-> "Skip", V |-> "u64"]
OrderBy_String == [F |-> "OrderBy", V |-> "String"]
MockFilter == [F |-> "MockFilter", V |-> "i32"]
NumberFilter_i32 == [F |-> "NumberFilter", V |-> "i32"]
StringFilter_String == [F |-> "StringFilter", V |-> "String"]
EqualFilter_i32 == [F |-> "EqualFilter", V |-> "i32"]
EqualFilter_bool == [F |-> "EqualFilter", V |-> "bool"]

\* T::from_str(filter, value), dispatched on the instantiation
FromStrFilter(T, filter_key, v) ==
    CASE T.F = "MockFilter" -> MockFilter_from_str(filter_key, v)
      [] T.F = "NumberFilter" -> NumberFilter_from_str(filter_key, v)
      [] T.F = "StringFilter" -> StringFilter_from_str(filter_key, v)
      [] T.F = "EqualFilter" -> EqualFilter_FromStrFilter(filter_key, v)
      [] T.F = "Limit" -> Limit_FromStrFilter(filter_key, v)
      [] T.F = "Skip" -> Skip_FromStrFilter(filter_key, v)
      [] T.F = "OrderBy" -> OrderBy_FromStrFilter(filter_key, v)

----------------------------------------------------------------------------
(* The multi-value extractor common::from_str.                             *)

\* Faulty variants of the loop body, used to test the properties below.
\* noEq: what a part without '=' yields; order: "convert" converts the value
\* before the field check, "decode" also decodes before it; dflt: the default
\* operator code.
from_str_part_variant(T, sid, part, noEq, order, dflt) ==
    LET so == split_once(part, "=")
        skip == [tag |-> "continue", v |-> <<>>, e |-> "-"]
    IN IF so = None THEN noEq
       ELSE LET rg == query_regex(so[1][1])
            IN IF rg = None THEN Err(FilterStructure)
               ELSE LET id == rg[1].g1[1]
                        filter == IF rg[1].g3 = None THEN dflt ELSE rg[1].g3[1]
                        pv == parse(T.V, so[1][2])
                        dec == IF pv = None THEN Err(Value)
                               ELSE FromStrFilter(T, filter, pv[1])
                    IN CASE order = "convert" ->
                                IF pv = None THEN Err(Value)
                                ELSE IF id # sid THEN skip ELSE dec
                         [] order = "decode" ->
                                IF IsErr(dec) THEN dec
                                ELSE IF id # sid THEN skip ELSE dec
                         [] OTHER -> IF id # sid THEN skip ELSE dec

\* converts the value before comparing the field name with search_id
from_str_part_convert_first(T, sid, part) ==
    from_str_part_variant(T, sid, part, Err(FilterStructure), "convert", op_eq)

\* converts and decodes before comparing the field name with search_id
from_str_part_skip_last(T, sid, part) ==
    from_str_part_variant(T, sid, part, Err(FilterStructure), "decode", op_eq)

\* skips a part without '=' instead of failing
from_str_part_skip_no_eq(T, sid, part) ==
    from_str_part_variant(T, sid, part,
                          [tag |-> "continue", v |-> <<>>, e |-> "-"], "code", op_eq)

\* defaults the operator code to "ne"
from_str_part_default_ne(T, sid, part) ==
    from_str_part_variant(T, sid, part, Err(FilterStructure), "code", op_ne)

\* what an iteration that ends in `continue` hands back to the loop
Continue == [tag |-> "continue", v |-> <<>>, e |-> "-"]

\* let value = value.parse()...?;  let filter = T::from_str(filter, value)?;
from_str_decode(T, filter, pv) ==
    IF pv = None THEN Err(Value) ELSE FromStrFilter(T, filter, pv[1])

\* if id != search_id { continue; }
from_str_field(T, sid, val, id, filter) ==
    IF id # sid THEN Continue ELSE from_str_decode(T, filter, parse(T.V, val))

\* let id = rg.get(1)...?;  let filter = rg.get(3).map_or("eq", ...);
from_str_captured(T, sid, val, rg) ==
    IF rg = None THEN Err(FilterStructure)
    ELSE IF rg[1].g1 = None THEN Err(FilterStructure)
    ELSE from_str_field(T, sid, val, rg[1].g1[1],
                        IF rg[1].g3 = None THEN op_eq ELSE rg[1].g3[1])

\* let rg = query_regex().captures(id_and_filter)...?;
from_str_split(T, sid, so) ==
    IF so = None THEN Err(FilterStructure)
    ELSE from_str_captured(T, sid, so[1][2], query_regex(so[1][1]))

\* one iteration of `for part in value.split('&')`:
\* Continue (segment of another field), Ok(filter) to push, or Err
from_str_part(T, sid, part) == from_str_split(T, sid, split_once(part, "="))

RECURSIVE from_str_loop_push_front(_, _, _, _)
\* faulty variant: inserts each filter at the front of `filters`
from_str_loop_push_front(T, sid, parts, filters) ==
    IF parts = <<>> THEN Ok(filters)
    ELSE LET r == from_str_part(T, sid, Head(parts))
         IN IF r.tag = "Err" THEN r
            ELSE IF r.tag = "continue"
                 THEN from_str_loop_push_front(T, sid, Tail(parts), filters)
            ELSE from_str_loop_push_front(T, sid, Tail(parts),
                                          <<Unwrap(r)>> \o filters)

RECURSIVE from_str_loop(_, _, _, _)
\* the outcome r of the iteration on Head(parts): `?` returns the error,
\* `continue` and `filters.push(filter)` go on with the remaining parts
from_str_step(T, sid, parts, filters, r) ==
    IF r.tag = "Err" THEN r
    ELSE IF r.tag = "continue" THEN from_str_loop(T, sid, Tail(parts), filters)
    ELSE from_str_loop(T, sid, Tail(parts), Append(filters, Unwrap(r)))

\* the loop over the parts with its accumulator `filters`
from_str_loop(T, sid, parts, filters) ==
    IF parts = <<>> THEN Ok(filters)
    ELSE from_str_step(T, sid, parts, filters, from_str_part(T, sid, Head(parts)))

\* faulty variant: no early return for the empty query
from_str_no_empty_check(T, sid, val) ==
    from_str_loop(T, sid, split(val, "&"), <<>>)

\* common::from_str::<V, T>(search_id, value)
from_str(T, sid, val) ==
    IF val = <<>> THEN Ok(<<>>)
    ELSE from_str_loop(T, sid, split(val, "&"), <<>>)

----------------------------------------------------------------------------
(* The filter families' public entry points.                               *)

\* whether from_str(_, val) evaluates query_regex(): its first iteration reaches
\* common.rs:26 exactly when the first part holds an '='; a later iteration
\* finds the cell already set
from_str_reaches_regex(val) ==
    val # <<>> /\ split_once(Head(split(val, "&")), "=") # None

\* QUERY_REGEX after a parse of val
QUERY_REGEX_after(val) ==
    IF from_str_reaches_regex(val) THEN OnceLock_set(QUERY_REGEX, Regex_new)
    ELSE QUERY_REGEX

\* slice::first().cloned()
first(xs) == IF xs = <<>> THEN None ELSE Some(xs[1])

\* NumberFilters<T>(pub Vec<NumberFilter<T>>, pub Option<FilterId>)
\* StringFilters<T>(pub Vec<StringFilter<T>>, pub Option<FilterId>)
Filters(xs, id) == [filters |-> xs, id |-> id]

\* Result::map(|x| Self(x, Some(search_id)))
map_filters(r, fid) == IF IsErr(r) THEN r ELSE Ok(Filters(Unwrap(r), Some(fid)))

\* NumberFilters::<i32>::from_id_value
NumberFilters_from_id_value(fid, val) ==
    map_filters(from_str(NumberFilter_i32, FilterId_id(fid), val), fid)

\* NumberFilters::<i32>::from_str
NumberFilters_from_str(sid, val) ==
    NumberFilters_from_id_value(FilterId_from(sid), val)

\* StringFilters::<String>::from_id_value
StringFilters_from_id_value(fid, val) ==
    map_filters(from_str(StringFilter_String, FilterId_id(fid), val), fid)

\* StringFilters::<String>::from_str
StringFilters_from_str(sid, val) ==
    StringFilters_from_id_value(FilterId_from(sid), val)

\* match u { Some(u) => Ok(Self(u.0, Some(search_id))),
\*           None => Ok(Self(None, Some(search_id))) }
EqualFilter_match(u, fid) ==
    IF u # None THEN Ok(EqualFilter(u[1].value, Some(fid)))
    ELSE Ok(EqualFilter(None, Some(fid)))

\* let u = from_str(...)?.first().cloned();
EqualFilter_first(r, fid) ==
    IF IsErr(r) THEN r ELSE EqualFilter_match(first(Unwrap(r)), fid)

\* EqualFilter::<V>::from_id_value
EqualFilter_from_id_value(V, fid, val) ==
    EqualFilter_first(from_str([F |-> "EqualFilter", V |-> V], FilterId_id(fid), val), fid)

\* EqualFilter::<V>::from_str
EqualFilter_from_str(V, sid, val) ==
    EqualFilter_from_id_value(V, FilterId_from(sid), val)

----------------------------------------------------------------------------
(* Reserved directives and the composed query.                             *)

kw_limit == <<"l","i","m","i","t">>
kw_skip == <<"s","k","i","p">>
kw_order_by == <<"o","r","d","e","r","_","b","y">>

\* let u = from_str(..., value)?.first().cloned();  Ok(u)
map_first(r) == IF IsErr(r) THEN r ELSE Ok(first(Unwrap(r)))

\* Limit::from_str
Limit_from_str(val) == map_first(from_str(Limit_u64, kw_limit, val))

\* Skip::from_str
Skip_from_str(val) == map_first(from_str(Skip_u64, kw_skip, val))

\* OrderBy::from_str
OrderBy_from_str(val) == map_first(from_str(OrderBy_String, kw_order_by, val))

\* the panic raised by unreachable!()
Panic == [tag |-> "Panic", v |-> <<>>, e |-> "unreachable"]

\* faulty variant: leaves the identifier bare
OrderBy_rescope_bare(prefix, x) == x

\* the closure of from_str_prefix, applied to the parsed directive x
OrderBy_rescope(prefix, x) ==
    IF x[2][1] = "Alone" THEN <<x[1], WithPrefix(prefix, x[2][2])>> ELSE Panic

\* Self::from_str(value)?.map(|x| ...)
OrderBy_map_prefix(prefix, r) ==
    IF IsErr(r) THEN r
    ELSE IF Unwrap(r) = None THEN Ok(None)
    ELSE IF OrderBy_rescope(prefix, Unwrap(r)[1]) = Panic THEN Panic
    ELSE Ok(Some(OrderBy_rescope(prefix, Unwrap(r)[1])))

\* OrderBy::from_str_prefix
OrderBy_from_str_prefix(prefix, val) == OrderBy_map_prefix(prefix, OrderBy_from_str(val))

age == <<"a","g","e">>
name == <<"n","a","m","e">>
active == <<"a","c","t","i","v","e">>

\* impl WithFilterId for UserFilter (tests/integration_tests.rs)
UserFilter_filter_id == None

\* Ok(UserFilter { name, age, active: EqualFilter::from_str("active", s)? })
UserFilter_active(n, a, b) ==
    IF IsErr(b) THEN b
    ELSE Ok([name |-> Unwrap(n), age |-> Unwrap(a), active |-> Unwrap(b)])

\* age: NumberFilters::from_str("age", s)?
UserFilter_age(s, n, a) ==
    IF IsErr(a) THEN a
    ELSE UserFilter_active(n, a, EqualFilter_from_str("bool", active, s))

\* name: StringFilters::from_str("name", s)?
UserFilter_name(s, n) ==
    IF IsErr(n) THEN n ELSE UserFilter_age(s, n, NumberFilters_from_str(age, s))

\* impl FromStr for UserFilter (tests/integration_tests.rs)
UserFilter_from_str(s) == UserFilter_name(s, StringFilters_from_str(name, s))

users == <<"u","s","e","r","s">>
is_active == <<"i","s","_","a","c","t","i","v","e">>

\* #[derive(Filterable)] #[filtrum(table = "users")] struct UserFilter
\* (tests/derive_tests.rs): impl WithFilterId, generated by the macro
Filterable_filter_id == Some(users)

\* Ok(Self { name, age, is_active }) after
\* let is_active = filtrum::EqualFilter::from_str("is_active", s)?;
Filterable_is_active(n, a, b) ==
    IF IsErr(b) THEN b
    ELSE Ok([name |-> Unwrap(n), age |-> Unwrap(a), is_active |-> Unwrap(b)])

\* let age = filtrum::NumberFilters::from_str("age", s)?;
Filterable_age(s, n, a) ==
    IF IsErr(a) THEN a
    ELSE Filterable_is_active(n, a, EqualFilter_from_str("bool", is_active, s))

\* let name = filtrum::StringFilters::from_str("name", s)?;  (no field of the
\* struct sets `table`, so the alias of `name` is not used)
Filterable_name(s, n) ==
    IF IsErr(n) THEN n ELSE Filterable_age(s, n, NumberFilters_from_str(age, s))

\* the impl FromStr the macro generates for the struct of tests/derive_tests.rs
Filterable_from_str(s) == Filterable_name(s, StringFilters_from_str(name, s))

\* the two inner filter objects T that are modelled
T_UserFilter == "UserFilter"
T_Filterable == "Filterable"

\* T::filter_id()
T_filter_id(T) ==
    IF T = T_Filterable THEN Filterable_filter_id ELSE UserFilter_filter_id

\* <T as FromStr>::from_str(value)
T_from_str(T, val) ==
    IF T = T_Filterable THEN Filterable_from_str(val) ELSE UserFilter_from_str(val)

\* let inner = T::from_str(value)?;  Ok(Self { order_by, limit, inner, skip })
FromQueryFilter_inner(o, l, k, i) ==
    IF IsErr(i) THEN i
    ELSE Ok([order_by |-> Unwrap(o), limit |-> Unwrap(l),
             inner |-> Unwrap(i), skip |-> Unwrap(k)])

\* let skip = Skip::from_str(value)?;
FromQueryFilter_skip(T, val, o, l, k) ==
    IF IsErr(k) THEN k ELSE FromQueryFilter_inner(o, l, k, T_from_str(T, val))

\* let limit = Limit::from_str(value)?;
FromQueryFilter_limit(T, val, o, l) ==
    IF IsErr(l) THEN l ELSE FromQueryFilter_skip(T, val, o, l, Skip_from_str(val))

\* let order_by = if let Some(prefix) = T::filter_id() {...}?
FromQueryFilter_order_by(T, val, o) ==
    IF ~IsOk(o) THEN o ELSE FromQueryFilter_limit(T, val, o, Limit_from_str(val))

\* if let Some(prefix) = T::filter_id() { OrderBy::from_str_prefix(prefix, value) }
\* else { OrderBy::from_str(value) }
FromQueryFilter_parse_order(fid, val) ==
    IF fid # None THEN OrderBy_from_str_prefix(fid[1], val) ELSE OrderBy_from_str(val)

\* faulty variant: parses the limit before the order directive
FromQueryFilter_from_str_limit_first(T, val) ==
    IF IsErr(Limit_from_str(val)) THEN Limit_from_str(val)
    ELSE FromQueryFilter_order_by(T, val, FromQueryFilter_parse_order(T_filter_id(T), val))

\* FromQueryFilter::<T>::from_str
FromQueryFilter_from_str(T, val) ==
    FromQueryFilter_order_by(T, val, FromQueryFilter_parse_order(T_filter_id(T), val))

----------------------------------------------------------------------------
(* Predicate emission (src/src/sqlx.rs): the text and the bound arguments  *)
(* of the sqlx QueryBuilder.                                               *)

\* QueryBuilder::new("")
QueryBuilder_new == [text |-> <<>>, args |-> <<>>]

\* QueryBuilder::push
push(qb, text) == [text |-> qb.text \o text, args |-> qb.args]

\* QueryBuilder::push_bind: a placeholder in the text, the value among the
\* arguments
push_bind(qb, v) == [text |-> qb.text \o <<"?">>, args |-> Append(qb.args, v)]

sql_and == <<" ","A","N","D"," ">>
sql_eq == <<" ","="," ">>
sql_ne == <<" ","<",">"," ">>
sql_gt == <<" ",">"," ">>
sql_lt == <<" ","<"," ">>
sql_gte == <<" ",">","="," ">>
sql_lte == <<" ","<","="," ">>
sql_like == <<" ","L","I","K","E"," ">>
sql_not_like == <<" ","N","O","T"," ","L","I","K","E"," ">>
sql_order_by == <<" ","O","R","D","E","R"," ","B","Y"," ">>
sql_asc == <<" ","A","S","C">>
sql_desc == <<" ","D","E","S","C">>

\* match filter { NumberFilter::Eq(v) => qb.push(" = "), ... }
NumberFilter_sql(variant) ==
    CASE variant = "Eq" -> sql_eq [] variant = "Ne" -> sql_ne
      [] variant = "Gt" -> sql_gt [] variant = "Lt" -> sql_lt
      [] variant = "Gte" -> sql_gte [] variant = "Lte" -> sql_lte

RECURSIVE NumberFilters_apply_loop(_, _, _)
\* for filter in &self.0 { qb.push(" AND "); qb.push(col_name); match ... }
NumberFilters_apply_loop(filters, col_name, qb) ==
    IF filters = <<>> THEN qb
    ELSE NumberFilters_apply_loop(
             Tail(filters), col_name,
             push_bind(push(push(push(qb, sql_and), col_name),
                            NumberFilter_sql(Head(filters)[1])),
                       Head(filters)[2]))

\* impl SqlxFilter for NumberFilters<T>: apply
NumberFilters_apply(self, qb) ==
    IF self.id = None THEN qb
    ELSE NumberFilters_apply_loop(self.filters, FilterId_key(self.id[1]), qb)

\* match filter { StringFilter::Eq(v) => qb.push(" = "), ... }
StringFilter_sql(variant) ==
    CASE variant = "Eq" -> sql_eq [] variant = "Ne" -> sql_ne
      [] variant = "NotLike" -> sql_not_like
      [] OTHER -> sql_like

\* the value bound for a StringFilter: v.clone() or format!(...)
StringFilter_bound(variant, v) ==
    CASE variant = "StartsWith" -> v \o <<"%">>
      [] variant = "EndsWith" -> <<"%">> \o v
      [] variant = "Contains" -> <<"%">> \o v \o <<"%">>
      [] OTHER -> v

RECURSIVE StringFilters_apply_loop(_, _, _)
\* for filter in &self.0 { qb.push(" AND "); qb.push(col_name); match ... }
StringFilters_apply_loop(filters, col_name, qb) ==
    IF filters = <<>> THEN qb
    ELSE StringFilters_apply_loop(
             Tail(filters), col_name,
             push_bind(push(push(push(qb, sql_and), col_name),
                            StringFilter_sql(Head(filters)[1])),
                       StringFilter_bound(Head(filters)[1], Head(filters)[2])))

\* impl SqlxFilter for StringFilters<T>: apply
StringFilters_apply(self, qb) ==
    IF self.id = None THEN qb
    ELSE StringFilters_apply_loop(self.filters, FilterId_key(self.id[1]), qb)

\* impl SqlxFilter for EqualFilter<T>: apply
EqualFilter_apply(self, qb) ==
    IF self.value = None \/ self.id = None THEN qb
    ELSE push_bind(push(push(push(qb, sql_and), FilterId_key(self.id[1])), sql_eq),
                   self.value[1])

\* impl SqlxFilter for OrderBy: apply
OrderBy_apply(self, qb) ==
    push(push(push(qb, sql_order_by), FilterId_key(self[2])),
         IF self[1] = "Asc" THEN sql_asc ELSE sql_desc)

I64_MAX == <<"9","2","2","3","3","7","2","0","3","6","8","5","4","7","7","5","8","0","7">>

\* 2^64
TWO_POW_64 == <<"1","8","4","4","6","7","4","4","0","7","3","7","0","9","5","5","1","6","1","6">>

DigitChar(d) ==
    CASE d = 0 -> "0" [] d = 1 -> "1" [] d = 2 -> "2" [] d = 3 -> "3"
      [] d = 4 -> "4" [] d = 5 -> "5" [] d = 6 -> "6" [] d = 7 -> "7"
      [] d = 8 -> "8" [] d = 9 -> "9"

RECURSIVE pad_zeros(_, _)
\* the numeral s with leading zeros up to len digits
pad_zeros(s, len) == IF Len(s) >= len THEN s ELSE pad_zeros(<<"0">> \o s, len)

RECURSIVE dec_sub(_, _, _, _)
\* a - b - borrow over the digits 1..i of two numerals of the same length
\* (a >= b)
dec_sub(a, b, i, borrow) ==
    IF i = 0 THEN <<>>
    ELSE IF DigitVal(a[i]) - DigitVal(b[i]) - borrow < 0
    THEN Append(dec_sub(a, b, i - 1, 1),
                DigitChar(DigitVal(a[i]) - DigitVal(b[i]) - borrow + 10))
    ELSE Append(dec_sub(a, b, i - 1, 0),
                DigitChar(DigitVal(a[i]) - DigitVal(b[i]) - borrow))

\* n <= i64::MAX for a canonical u64 numeral
fits_i64(n) ==
    \/ Len(n) < Len(I64_MAX)
    \/ Len(n) = Len(I64_MAX) /\ digits_le(n, I64_MAX, 1)

\* `self.0 as i64` on a u64: the same 64 bits read as two's complement, so
\* n itself up to i64::MAX and n - 2^64 above it; the i64 is kept as its
\* signed decimal numeral
u64_as_i64(n) ==
    IF fits_i64(n) THEN n
    ELSE <<"-">> \o strip_zeros(dec_sub(TWO_POW_64,
                                       pad_zeros(n, Len(TWO_POW_64)),
                                       Len(TWO_POW_64), 0))

sql_limit == <<" ","L","I","M","I","T"," ">>
sql_offset == <<" ","O","F","F","S","E","T"," ">>

\* impl SqlxFilter for Limit: apply
Limit_apply(self, qb) == push_bind(push(qb, sql_limit), u64_as_i64(self[2]))

\* impl SqlxFilter for Skip: apply
Skip_apply(self, qb) == push_bind(push(qb, sql_offset), u64_as_i64(self[2]))

\* impl SqlxFilter<Sqlite> for UserFilter (tests/sqlx_tests.rs):
\* self.name.apply(qb); self.age.apply(qb); self.active.apply(qb);
UserFilter_apply(self, qb) ==
    EqualFilter_apply(self.active,
        NumberFilters_apply(self.age, StringFilters_apply(self.name, qb)))

\* if let Some(skip) = &self.skip { skip.apply(qb); }
FromQueryFilter_apply_skip(self, qb) ==
    IF self.skip = None THEN qb ELSE Skip_apply(self.skip[1], qb)

\* if let Some(limit) = &self.limit { limit.apply(qb); }
FromQueryFilter_apply_limit(self, qb) ==
    IF self.limit = None THEN qb ELSE Limit_apply(self.limit[1], qb)

\* if let Some(order_by) = &self.order_by { order_by.apply(qb); }
FromQueryFilter_apply_order_by(self, qb) ==
    IF self.order_by = None THEN qb ELSE OrderBy_apply(self.order_by[1], qb)

\* faulty variant: the limit is appended before the order clause
FromQueryFilter_apply_limit_first(self, qb) ==
    FromQueryFilter_apply_skip(self,
        FromQueryFilter_apply_order_by(self,
            FromQueryFilter_apply_limit(self, UserFilter_apply(self.inner, qb))))

\* impl SqlxFilter for FromQueryFilter<T>: apply, with T = UserFilter
FromQueryFilter_apply(self, qb) ==
    FromQueryFilter_apply_skip(self,
        FromQueryFilter_apply_limit(self,
            FromQueryFilter_apply_order_by(self, UserFilter_apply(self.inner, qb))))

----------------------------------------------------------------------------
(* Inputs: target ids and raw query strings built from '&'-joined parts.    *)

\* most '&'-separated parts in a generated query
MaxParts == 2

h == <<"h">>

Ids == {age, h}

bracket(op) == <<"[">> \o op \o <<"]">>

op_near == <<"n","e","a","r">>

\* keys on the field `age`: every operator code of the two families, an
\* unknown one, and keys outside the grammar
KeysOnAge ==
    {age} \cup
    {age \o bracket(op) : op \in {op_eq, op_ne, op_gt, op_lt, op_gte, op_lte,
                                  op_like, op_l, op_not_like, op_nl,
                                  op_starts_with, op_sw, op_ends_with, op_ew,
                                  op_contains, op_c, op_near}} \cup
    {<<"-">> \o age, age \o <<"[","E","Q","]">>, age \o <<"[","n","e">>,
     age \o <<"[","l","t","]","!">>, age \o <<"s">>} \cup
    {age \o bracket(<<"7">>), age \o bracket(op_lt) \o bracket(<<"1">>),
     age \o bracket(op_near) \o bracket(<<"1","0">>)}

\* keys in which no name can be found
KeysNoName == {<<>>, <<"-">>, <<"[","]">>}

Values == {<<"1">>, <<"x">>}

kv(k, v) == k \o <<"=">> \o v

\* the parts of which a query holds at most one
RichParts ==
    {kv(k, v) : k \in KeysOnAge \cup KeysNoName, v \in Values} \cup
    {kv(age, <<"2">>)}

\* the parts a query may hold any number of
CoreParts ==
    {kv(age, <<"1">>), kv(age \o bracket(op_lt), <<"2">>), kv(age, <<"x">>),
     kv(h, <<"1">>), kv(h \o bracket(op_near), <<"x">>),
     <<>>, age}

RECURSIVE join(_)
\* the parts joined with '&'
join(parts) ==
    IF parts = <<>> THEN <<>>
    ELSE IF Len(parts) = 1 THEN parts[1]
    ELSE parts[1] \o <<"&">> \o join(Tail(parts))

InsertAt(ps, i, p) == SubSeq(ps, 1, i - 1) \o <<p>> \o SubSeq(ps, i, Len(ps))

PartSeqs ==
    UNION {[1..n -> CoreParts] : n \in 0..MaxParts} \cup
    UNION {{InsertAt(c, i, r) : c \in [1..(n - 1) -> CoreParts],
                                i \in 1..n, r \in RichParts} : n \in 1..MaxParts}

Queries == {join(ps) : ps \in PartSeqs}

----------------------------------------------------------------------------
(* State machine: the inputs are drawn in Init, one action per entry point. *)

NoResult == [tag |-> "none", v |-> <<>>, e |-> "-"]

Init ==
    /\ called = "none"
    /\ search_id \in Ids
    /\ value \in Queries
    /\ result = NoResult
    /\ filter_id = None
    /\ prefix_arg = None
    /\ QUERY_REGEX = None
    /\ sql = QueryBuilder_new
    /\ seen = {}
    /\ pc = <<>>
    /\ got = <<>>
    /\ once = "INCOMPLETE"
    /\ inits = 0
    /\ decl = <<>>
    /\ uri_query = None
    /\ response = None

\* the public parse entry points, by name
Apply(entry, sid, val) ==
    CASE entry = "from_str" -> from_str(MockFilter, sid, val)
      [] entry = "NumberFilters::from_str" -> NumberFilters_from_str(sid, val)
      [] entry = "StringFilters::from_str" -> StringFilters_from_str(sid, val)
      [] entry = "EqualFilter::from_str" -> EqualFilter_from_str("i32", sid, val)
      [] entry = "FromQueryFilter::from_str" ->
             FromQueryFilter_from_str(T_UserFilter, val)

Call(entry) ==
    /\ called = "none"
    /\ called' = entry
    /\ result' = Apply(entry, search_id, value)
    /\ QUERY_REGEX' = QUERY_REGEX_after(value)
    /\ UNCHANGED <<search_id, value, filter_id, prefix_arg, sql, seen, pc, got, once, inits, decl, uri_query, response>>

\* common::from_str::<i32, MockFilter>(search_id, value)
Extract == Call("from_str")

\* NumberFilters::<i32>::from_str(search_id, value)
NumberFiltersFromStr == Call("NumberFilters::from_str")

\* StringFilters::<String>::from_str(search_id, value)
StringFiltersFromStr == Call("StringFilters::from_str")

\* EqualFilter::<i32>::from_str(search_id, value)
EqualFilterFromStr == Call("EqualFilter::from_str")

\* FromQueryFilter::<UserFilter>::from_str(value)
FromQueryFilterFromStr == Call("FromQueryFilter::from_str")

Next ==
    \/ Extract
    \/ NumberFiltersFromStr
    \/ StringFiltersFromStr
    \/ EqualFilterFromStr
    \/ FromQueryFilterFromStr

Spec == Init /\ [][Next]_vars

----------------------------------------------------------------------------
(* Reserved directives and the composed parse: the raw query holds         *)
(* limit, skip and order_by segments next to segments of the fields of     *)
(* T.                                                                      *)

n_field == <<"n">>
op_up == <<"u","p">>
true_text == <<"t","r","u","e">>

\* the '&'-separated parts of the queries with directives
DirectiveParts ==
    {kv(kw_limit, <<"1">>), kv(kw_limit, <<"2">>), kv(kw_limit, <<"x">>),
     kv(kw_skip, <<"1">>), kv(kw_skip, <<"x">>),
     kv(kw_order_by \o bracket(op_asc), n_field),
     kv(kw_order_by \o bracket(op_desc), age),
     kv(kw_order_by, n_field),
     kv(kw_order_by \o bracket(op_up), n_field),
     kv(age, <<"1">>), kv(age, <<"x">>), kv(age \o bracket(op_near), <<"1">>),
     kv(age \o bracket(<<"g","t","e">>), <<"2">>),
     kv(name \o bracket(<<"s","w">>), <<"a">>),
     kv(active, true_text), kv(active, <<"x">>),
     kw_limit}

DirectiveQueries ==
    {join(ps) : ps \in UNION {[1..k -> DirectiveParts] : k \in 0..MaxParts}}

\* the prefixes handed to OrderBy::from_str_prefix
Prefixes == {users, <<"t">>}

\* StatusCode::BAD_REQUEST
BAD_REQUEST == 400

\* #[error("...")] of FilterParseError: self.0.to_string()
FilterParseError_to_string(e) ==
    CASE e = FilterStructure -> "invalid filter structure"
      [] e = Value -> "invalid filter value"
      [] e = UnknownFilter -> "unknown filter"

FilterRejection(e) == <<"FilterRejection", e>>

\* faulty variant: a value error is answered as a server error
FilterRejection_into_response_value_500(self) ==
    [status |-> IF self[2] = Value THEN 500 ELSE BAD_REQUEST,
     body |-> FilterParseError_to_string(self[2])]

\* (StatusCode::BAD_REQUEST, self.0.to_string()).into_response()
FilterRejection_into_response(self) ==
    [status |-> BAD_REQUEST, body |-> FilterParseError_to_string(self[2])]

\* Option::unwrap_or
unwrap_or(o, default) == IF o = None THEN default ELSE o[1]

\* Result::map_err(FilterRejection)
map_err_FilterRejection(r) == IF IsErr(r) THEN Err(FilterRejection(r.e)) ELSE r

\* let query = parts.uri.query().unwrap_or("");
\* Self::from_str(query).map_err(FilterRejection)
from_request_parts(T, query) ==
    map_err_FilterRejection(FromQueryFilter_from_str(T, unwrap_or(query, <<>>)))

\* axum answers a rejected extraction with the rejection's into_response()
Rejection_response(r) ==
    IF IsErr(r) THEN Some(FilterRejection_into_response(r.e)) ELSE None

InitDirectives ==
    /\ called = "none"
    /\ search_id = <<>>
    /\ value \in DirectiveQueries
    /\ result = NoResult
    /\ filter_id = None
    /\ prefix_arg = None
    /\ QUERY_REGEX = None
    /\ sql = QueryBuilder_new
    /\ seen = {}
    /\ pc = <<>>
    /\ got = <<>>
    /\ once = "INCOMPLETE"
    /\ inits = 0
    /\ decl = <<>>
    /\ uri_query = None
    /\ response = None

\* the entry points on a raw query alone, by name; p is the prefix of
\* from_str_prefix
ApplyDirective(entry, p, val) ==
    CASE entry = "Limit::from_str" -> Limit_from_str(val)
      [] entry = "Skip::from_str" -> Skip_from_str(val)
      [] entry = "OrderBy::from_str" -> OrderBy_from_str(val)
      [] entry = "OrderBy::from_str_prefix" -> OrderBy_from_str_prefix(p[1], val)
      [] entry = "FromQueryFilter::<UserFilter>::from_str" ->
             FromQueryFilter_from_str(T_UserFilter, val)
      [] entry = "FromQueryFilter::<Filterable>::from_str" ->
             FromQueryFilter_from_str(T_Filterable, val)

CallDirective(entry, p) ==
    /\ called = "none"
    /\ called' = entry
    /\ prefix_arg' = p
    /\ result' = ApplyDirective(entry, p, value)
    /\ QUERY_REGEX' = QUERY_REGEX_after(value)
    /\ UNCHANGED <<search_id, value, filter_id, sql, seen, pc, got, once, inits, decl, uri_query, response>>

\* Limit::from_str(value)
LimitFromStr == CallDirective("Limit::from_str", None)

\* Skip::from_str(value)
SkipFromStr == CallDirective("Skip::from_str", None)

\* OrderBy::from_str(value)
OrderByFromStr == CallDirective("OrderBy::from_str", None)

\* OrderBy::from_str_prefix(prefix, value)
OrderByFromStrPrefix ==
    \E p \in Prefixes : CallDirective("OrderBy::from_str_prefix", Some(p))

\* FromQueryFilter::<UserFilter>::from_str(value), T::filter_id() = None
FromQueryFilterUserFilter ==
    CallDirective("FromQueryFilter::<UserFilter>::from_str", None)

\* FromQueryFilter::<T>::from_str(value) for the derived T, T::filter_id() =
\* Some("users")
FromQueryFilterFilterable ==
    CallDirective("FromQueryFilter::<Filterable>::from_str", None)

\* <FromQueryFilter<UserFilter> as FromRequestParts>::from_request_parts on
\* a request whose URI has the query component q (None: the URI has none)
ExtractFromRequest(q) ==
    /\ called = "none"
    /\ called' = "FromQueryFilter::from_request_parts"
    /\ uri_query' = q
    /\ result' = from_request_parts(T_UserFilter, q)
    /\ response' = Rejection_response(result')
    /\ QUERY_REGEX' = QUERY_REGEX_after(unwrap_or(q, <<>>))
    /\ UNCHANGED <<search_id, value, filter_id, prefix_arg, sql, seen, pc, got,
                   once, inits, decl>>

FromRequestParts == ExtractFromRequest(Some(value))

FromRequestPartsNoQuery == ExtractFromRequest(None)

\* a UserFilter whose filters were built without an identifier, as the
\* public fields allow: NumberFilters(v, None), EqualFilter(v, None)
UserFilter_without_ids(u) ==
    [name |-> [u.name EXCEPT !.id = None],
     age |-> [u.age EXCEPT !.id = None],
     active |-> [u.active EXCEPT !.id = None]]

\* filter.apply(&mut qb) on a FromQueryFilter<UserFilter>
ApplyComposed(self) ==
    /\ called = "FromQueryFilter::<UserFilter>::from_str"
    /\ IsOk(result)
    /\ called' = "FromQueryFilter::apply"
    /\ result' = Ok(self)
    /\ sql' = FromQueryFilter_apply(self, sql)
    /\ UNCHANGED <<search_id, value, filter_id, prefix_arg, QUERY_REGEX, seen,
                   pc, got, once, inits, decl, uri_query, response>>

\* <FromQueryFilter<UserFilter> as SqlxFilter>::apply on the parsed filter
FromQueryFilterApply == ApplyComposed(Unwrap(result))

\* the same on a filter whose inner filters carry no identifier
FromQueryFilterApplyNoIds ==
    ApplyComposed([Unwrap(result) EXCEPT !.inner = UserFilter_without_ids(@)])

NextDirectives ==
    \/ FromQueryFilterApply
    \/ FromQueryFilterApplyNoIds
    \/ FromRequestParts
    \/ FromRequestPartsNoQuery
    \/ LimitFromStr
    \/ SkipFromStr
    \/ OrderByFromStr
    \/ OrderByFromStrPrefix
    \/ FromQueryFilterUserFilter
    \/ FromQueryFilterFilterable

SpecDirectives == InitDirectives /\ [][NextDirectives]_vars

----------------------------------------------------------------------------
(* Scoped and aliased identifiers: from_id_value of the three families on  *)
(* a FilterId, followed by the emission of the parsed filter.              *)

Alice == <<"A","l","i","c","e">>

\* the identifiers handed to from_id_value: the field `name`, bare, scoped
\* and aliased as `n`
FilterIds ==
    {Alone(name)} \cup
    {WithPrefix(p, name) : p \in Prefixes} \cup
    {WithPrefixAndAlias(p, name, n_field) : p \in Prefixes}

\* segments keyed by the name, by the alias, by a scope and by order_by
IdParts ==
    {kv(name, <<"1">>), kv(name \o bracket(op_ne), <<"2">>), kv(name, Alice),
     kv(n_field, <<"3">>), kv(n_field \o bracket(op_eq), Alice),
     kv(users, <<"4">>),
     kv(kw_order_by \o bracket(op_asc), name),
     kv(kw_order_by \o bracket(op_desc), n_field)}

IdQueries == {join(ps) : ps \in UNION {[1..k -> IdParts] : k \in 0..MaxParts}}

InitIds ==
    /\ called = "none"
    /\ search_id = <<>>
    /\ value \in IdQueries
    /\ result = NoResult
    /\ filter_id \in {Some(f) : f \in FilterIds}
    /\ prefix_arg = None
    /\ QUERY_REGEX = None
    /\ sql = QueryBuilder_new
    /\ seen = {}
    /\ pc = <<>>
    /\ got = <<>>
    /\ once = "INCOMPLETE"
    /\ inits = 0
    /\ decl = <<>>
    /\ uri_query = None
    /\ response = None

\* from_id_value of the three families, by name
ApplyId(entry, fid, val) ==
    CASE entry = "NumberFilters::from_id_value" -> NumberFilters_from_id_value(fid, val)
      [] entry = "StringFilters::from_id_value" -> StringFilters_from_id_value(fid, val)
      [] entry = "EqualFilter::from_id_value" -> EqualFilter_from_id_value("i32", fid, val)

CallId(entry) ==
    /\ called = "none"
    /\ called' = entry
    /\ result' = ApplyId(entry, filter_id[1], value)
    /\ QUERY_REGEX' = QUERY_REGEX_after(value)
    /\ UNCHANGED <<search_id, value, filter_id, prefix_arg, sql, seen, pc, got, once, inits, decl, uri_query, response>>

\* NumberFilters::<i32>::from_id_value(filter_id, value)
NumberFiltersFromIdValue == CallId("NumberFilters::from_id_value")

\* StringFilters::<String>::from_id_value(filter_id, value)
StringFiltersFromIdValue == CallId("StringFilters::from_id_value")

\* EqualFilter::<i32>::from_id_value(filter_id, value)
EqualFilterFromIdValue == CallId("EqualFilter::from_id_value")

\* filter.apply(&mut qb) on the value a parse returned
Emit(parsed, applied, qb) ==
    /\ called = parsed
    /\ IsOk(result)
    /\ called' = applied
    /\ sql' = qb
    /\ UNCHANGED <<search_id, value, result, filter_id, prefix_arg, QUERY_REGEX, seen, pc, got, once, inits, decl, uri_query, response>>

\* <NumberFilters<i32> as SqlxFilter>::apply
NumberFiltersApply ==
    Emit("NumberFilters::from_id_value", "NumberFilters::apply",
         NumberFilters_apply(Unwrap(result), sql))

\* <StringFilters<String> as SqlxFilter>::apply
StringFiltersApply ==
    Emit("StringFilters::from_id_value", "StringFilters::apply",
         StringFilters_apply(Unwrap(result), sql))

\* <EqualFilter<i32> as SqlxFilter>::apply
EqualFilterApply ==
    Emit("EqualFilter::from_id_value", "EqualFilter::apply",
         EqualFilter_apply(Unwrap(result), sql))

\* <OrderBy as SqlxFilter>::apply on the directive from_str_prefix returned
OrderByApply ==
    /\ called = "OrderBy::from_str_prefix"
    /\ IsOk(result)
    /\ Unwrap(result) # None
    /\ Emit("OrderBy::from_str_prefix", "OrderBy::apply",
            OrderBy_apply(Unwrap(result)[1], sql))

NextIds ==
    \/ NumberFiltersFromIdValue
    \/ StringFiltersFromIdValue
    \/ EqualFilterFromIdValue
    \/ OrderByFromStrPrefix
    \/ NumberFiltersApply
    \/ StringFiltersApply
    \/ EqualFilterApply
    \/ OrderByApply

SpecIds == InitIds /\ [][NextIds]_vars

----------------------------------------------------------------------------
(* Repeated parses: the same raw query is parsed any number of times, by   *)
(* any entry points in any order, while other parses of the process may    *)
(* initialise the token grammar in between.                                *)

HistoryEntries ==
    {"from_str", "NumberFilters::from_str", "StringFilters::from_str",
     "EqualFilter::from_str", "FromQueryFilter::from_str"}

\* the raw queries of the other parses of the process
OtherQueries == {<<>>, kv(h, <<"1">>)}

InitHistory ==
    /\ called = "none"
    /\ search_id \in Ids
    /\ value \in {join(ps) : ps \in UNION {[1..k -> CoreParts] : k \in 0..MaxParts}}
    /\ result = NoResult
    /\ filter_id = None
    /\ prefix_arg = None
    /\ QUERY_REGEX = None
    /\ sql = QueryBuilder_new
    /\ seen = {}
    /\ pc = <<>>
    /\ got = <<>>
    /\ once = "INCOMPLETE"
    /\ inits = 0
    /\ decl = <<>>
    /\ uri_query = None
    /\ response = None

\* one more parse of (search_id, value) by an entry point
Reparse(entry) ==
    /\ called' = entry
    /\ result' = Apply(entry, search_id, value)
    /\ QUERY_REGEX' = QUERY_REGEX_after(value)
    /\ seen' = seen \cup {<<entry, result'>>}
    /\ UNCHANGED <<search_id, value, filter_id, prefix_arg, sql, pc, got, once, inits, decl, uri_query, response>>

\* a parse of another raw query: all it leaves behind is the grammar cell
ParseOther ==
    /\ \E q \in OtherQueries : QUERY_REGEX' = QUERY_REGEX_after(q)
    /\ UNCHANGED <<called, search_id, value, result, filter_id, prefix_arg, sql, seen, pc, got, once, inits, decl, uri_query, response>>

NextHistory ==
    \/ \E entry \in HistoryEntries : Reparse(entry)
    \/ ParseOther

SpecHistory == InitHistory /\ [][NextHistory]_vars

----------------------------------------------------------------------------
(* Vocabulary of the properties: the segments of the raw query.            *)

\* the '&'-separated segments of a raw query (none for the empty query)
Segments(q) == IF q = <<>> THEN <<>> ELSE split(q, "&")

SegHasEq(p) == \E i \in 1..Len(p) : p[i] = "="

\* the text before the first '=' (the whole segment when it has none)
SegKey(p) == IF SegHasEq(p) THEN SubSeq(p, 1, find(p, "=", 1) - 1) ELSE p

\* the text after the first '='
SegVal(p) == SubSeq(p, find(p, "=", 1) + 1, Len(p))

\* the field name the token matcher reports for the segment's key, if any
SegName(p) ==
    LET c == query_regex(SegKey(p)) IN IF c = None THEN None ELSE c[1].g1

\* the operator code handed to decode for the segment
SegOp(p) ==
    LET c == query_regex(SegKey(p))
    IN IF c = None \/ c[1].g3 = None THEN op_eq ELSE c[1].g3[1]

\* the segment has an '=' and a key in which a field name is found
SegStructured(p) == SegHasEq(p) /\ SegName(p) # None

\* the segment is addressed to the field sid / to another field
SegMatches(sid, p) == SegStructured(p) /\ SegName(p) = Some(sid)
SegOther(sid, p) == SegStructured(p) /\ SegName(p) # Some(sid)

\* the segments of q addressed to sid, in order of appearance
Matching(sid, q) == SelectSeq(Segments(q), LAMBDA p : SegMatches(sid, p))

\* no segment before the i-th makes the extractor fail
NoEarlierError(T, sid, ps, i) ==
    \A j \in 1..(i - 1) : from_str_part(T, sid, ps[j]).tag # "Err"

\* q with its i-th segment replaced by p
ReplaceSeg(q, i, p) == join([Segments(q) EXCEPT ![i] = p])

\* The grammar name('[' op ']')?('[' digits ']')? applied to a whole key:
\* [ok, name, op, index], op and index being None or Some(text).
Grammar(key) ==
    LET n1 == run(key, Word, 1)
        p2 == 1 + n1
        n3 == IF p2 <= Len(key) /\ key[p2] = "[" THEN run(key, Lower, p2 + 1) ELSE 0
        has2 == n3 > 0 /\ p2 + 1 + n3 <= Len(key) /\ key[p2 + 1 + n3] = "]"
        p4 == IF has2 THEN p2 + n3 + 2 ELSE p2
        n5 == IF p4 <= Len(key) /\ key[p4] = "[" THEN run(key, Digit, p4 + 1) ELSE 0
        has4 == n5 > 0 /\ p4 + 1 + n5 <= Len(key) /\ key[p4 + 1 + n5] = "]"
        end == IF has4 THEN p4 + n5 + 2 ELSE p4
    IN [ok |-> n1 > 0 /\ end = Len(key) + 1,
        name |-> SubSeq(key, 1, n1),
        op |-> IF has2 THEN Some(SubSeq(key, p2 + 1, p2 + n3)) ELSE None,
        index |-> IF has4 THEN Some(SubSeq(key, p4 + 1, p4 + n5)) ELSE None]

FamilyEntries ==
    {"from_str", "NumberFilters::from_str", "StringFilters::from_str",
     "EqualFilter::from_str"}

Instantiations ==
    {MockFilter, NumberFilter_i32, StringFilter_String, EqualFilter_i32,
     EqualFilter_bool, Limit_u64, Skip_u64, OrderBy_String}

\* the instantiation of the extractor behind a family entry point
InstOf(entry) ==
    CASE entry = "from_str" -> MockFilter
      [] entry = "NumberFilters::from_str" -> NumberFilter_i32
      [] entry = "StringFilters::from_str" -> StringFilter_String
      [] entry = "EqualFilter::from_str" -> EqualFilter_i32

----------------------------------------------------------------------------
(* C1                                                                      *)

\* C1: when EqualFilter::from_str succeeds on a query with two or more
\* segments addressed to the target, the value it retains is the value of the
\* LAST such segment.
C1_LastOccurrenceRetained ==
    (/\ called = "EqualFilter::from_str"
     /\ IsOk(result)
     /\ Len(Matching(search_id, value)) >= 2)
    => LET m == Matching(search_id, value)
       IN Unwrap(result).value = parse("i32", SegVal(m[Len(m)]))

----------------------------------------------------------------------------
(* C2                                                                      *)

\* the long operator codes of StringFilter, their short aliases and variants
AliasPairs ==
    {<<op_like, op_l, "Like">>,
     <<op_not_like, op_nl, "NotLike">>,
     <<op_starts_with, op_sw, "StartsWith">>,
     <<op_ends_with, op_ew, "EndsWith">>,
     <<op_contains, op_c, "Contains">>}

\* C2: StringFilters::from_str on the single segment "id[long]=v" yields the
\* same result as on "id[short]=v", namely the one variant of the pair
\* carrying v.
C2_LongAndShortInterchangeable ==
    called = "StringFilters::from_str" =>
    \A pr \in AliasPairs :
        (/\ Len(Segments(value)) = 1
         /\ SegHasEq(value)
         /\ SegKey(value) = search_id \o bracket(pr[1]))
        => /\ result = StringFilters_from_str(
                           search_id, kv(search_id \o bracket(pr[2]), SegVal(value)))
           /\ result = Ok(Filters(<<Variant(pr[3], SegVal(value))>>,
                                  Some(Alone(search_id))))

----------------------------------------------------------------------------
(* C3                                                                      *)

\* C3 as stated: when no segment names the target id, the extractor returns
\* Ok with an empty sequence, whatever else the query contains.
C3_NoMatchNeverFails ==
    (/\ called = "from_str"
     /\ \A i \in 1..Len(Segments(value)) :
            SegName(Segments(value)[i]) # Some(search_id))
    => result = Ok(<<>>)

\* C3 amended: when every segment has an '=' and a key in which a field name
\* is found, and no segment's field name equals the target id, the extractor
\* returns Ok with an empty sequence for every instantiation, whatever the
\* values and operator codes of those segments.
C3_StructuredNoMatchIsEmpty ==
    (/\ called = "from_str"
     /\ \A i \in 1..Len(Segments(value)) : SegOther(search_id, Segments(value)[i]))
    => /\ result = Ok(<<>>)
       /\ \A T \in Instantiations : from_str(T, search_id, value) = Ok(<<>>)

\* a query of other fields' segments, one with an unconvertible value and an
\* unknown operator, extracted to the empty sequence
C3_Witness ==
    /\ called = "from_str"
    /\ result = Ok(<<>>)
    /\ \A i \in 1..Len(Segments(value)) : SegOther(search_id, Segments(value)[i])
    /\ \E i \in 1..Len(Segments(value)) :
           /\ parse("i32", SegVal(Segments(value)[i])) = None
           /\ SegOp(Segments(value)[i]) = op_near

----------------------------------------------------------------------------
(* C4                                                                      *)

\* C4: for every family, removing the segments addressed to other fields
\* (whatever their values and operator codes) leaves the result unchanged.
\* (A query reduced to a single empty segment is the empty query, which is
\* parsed differently, so that case is left out.)
C4_OtherFieldsNeverRaise ==
    called \in FamilyEntries =>
    LET kept == SelectSeq(Segments(value), LAMBDA p : ~SegOther(search_id, p))
    IN kept # <<<<>>>> => result = Apply(called, search_id, join(kept))

\* a successful numeric parse next to another field's segment carrying an
\* unconvertible value and an unknown operator
C4_Witness ==
    /\ called = "NumberFilters::from_str"
    /\ IsOk(result)
    /\ Len(Unwrap(result).filters) >= 1
    /\ \E i \in 1..Len(Segments(value)) :
           /\ SegOther(search_id, Segments(value)[i])
           /\ parse("i32", SegVal(Segments(value)[i])) = None
           /\ SegOp(Segments(value)[i]) = op_near

----------------------------------------------------------------------------
(* C5                                                                      *)

\* C5: for every family, when no earlier segment makes the extractor fail, a
\* segment without '=' makes it fail with FilterStructure (whether or not it
\* names the target), and a segment addressed to the target whose value does
\* not convert makes it fail with Value.
C5_StructureAndValueErrors ==
    called \in FamilyEntries =>
    LET T == InstOf(called)
        ps == Segments(value)
    IN \A i \in 1..Len(ps) :
           NoEarlierError(T, search_id, ps, i) =>
               /\ ~SegHasEq(ps[i]) => result = Err(FilterStructure)
               /\ (SegMatches(search_id, ps[i]) /\ parse(T.V, SegVal(ps[i])) = None)
                      => result = Err(Value)

\* a segment of another field followed by a segment without '=' that does not
\* name the target: FilterStructure
C5_Witness ==
    /\ called = "NumberFilters::from_str"
    /\ result = Err(FilterStructure)
    /\ Len(Segments(value)) = 2
    /\ SegOther(search_id, Segments(value)[1])
    /\ ~SegHasEq(Segments(value)[2])
    /\ SegName(Segments(value)[2]) # Some(search_id)

----------------------------------------------------------------------------
(* C6                                                                      *)

\* C6: for every family, a segment key=value whose key as a whole is not of
\* the form name('[' op ']')?('[' digits ']')? makes the parse fail with
\* FilterStructure (when no earlier segment made it fail).
C6_NonConformingKeyRejected ==
    called \in FamilyEntries =>
    LET T == InstOf(called)
        ps == Segments(value)
    IN \A i \in 1..Len(ps) :
           (/\ SegHasEq(ps[i])
            /\ ~Grammar(SegKey(ps[i])).ok
            /\ NoEarlierError(T, search_id, ps, i))
           => result = Err(FilterStructure)

----------------------------------------------------------------------------
(* C7                                                                      *)

NumberOps == {op_eq, op_ne, op_gt, op_lt, op_gte, op_lte}

\* the variant the specification assigns to a numeric operator code
NumberVariant(op) ==
    CASE op = op_eq -> "Eq" [] op = op_ne -> "Ne" [] op = op_gt -> "Gt"
      [] op = op_lt -> "Lt" [] op = op_gte -> "Gte" [] op = op_lte -> "Lte"
      [] OTHER -> "?"

\* the segment has an '=' and a key of the grammar
SegConforms(p) == SegHasEq(p) /\ Grammar(SegKey(p)).ok

\* the operator code the grammar gives the segment, eq when it has none
SegGrammarOp(p) ==
    LET g == Grammar(SegKey(p)) IN IF g.op = None THEN op_eq ELSE g.op[1]

\* C7: NumberFilters::from_str (a) fails with UnknownFilter at a segment of
\* the grammar addressed to the target whose bracketed operator code is none
\* of eq, ne, gt, lt, gte, lte and whose value converts, when no earlier
\* segment made it fail; (b) on a query of segments of the grammar, when it
\* succeeds, yields for the segments addressed to the target, in order, the
\* variants Eq, Ne, Gt, Lt, Gte, Lte of their operator codes with their
\* converted values.
C7_NumberOperatorCodes ==
    called = "NumberFilters::from_str" =>
    LET ps == Segments(value)
        mine == SelectSeq(ps, LAMBDA p : Grammar(SegKey(p)).name = search_id)
    IN /\ \A i \in 1..Len(ps) :
              (/\ SegConforms(ps[i])
               /\ Grammar(SegKey(ps[i])).name = search_id
               /\ Grammar(SegKey(ps[i])).op # None
               /\ SegGrammarOp(ps[i]) \notin NumberOps
               /\ parse("i32", SegVal(ps[i])) # None
               /\ NoEarlierError(NumberFilter_i32, search_id, ps, i))
              => result = Err(UnknownFilter)
       /\ (IsOk(result) /\ \A i \in 1..Len(ps) : SegConforms(ps[i]))
              => Unwrap(result).filters =
                     [i \in 1..Len(mine) |->
                         Variant(NumberVariant(SegGrammarOp(mine[i])),
                                 parse("i32", SegVal(mine[i]))[1])]

\* the single segment id[near]=v with a convertible v: UnknownFilter
C7_Witness ==
    /\ called = "NumberFilters::from_str"
    /\ result = Err(UnknownFilter)
    /\ Len(Segments(value)) = 1
    /\ SegHasEq(value)
    /\ SegKey(value) = search_id \o bracket(op_near)
    /\ parse("i32", SegVal(value)) # None

----------------------------------------------------------------------------
(* C8                                                                      *)

\* C8: for every family and surrounding query, a segment "id=v" gives the
\* same result as "id[eq]=v" in its place, and the extractor hands the
\* operator code "eq" to decode for it.
C8_OmittedOperatorIsEq ==
    called \in FamilyEntries =>
    LET ps == Segments(value)
    IN \A i \in 1..Len(ps) :
           (SegHasEq(ps[i]) /\ SegKey(ps[i]) = search_id) =>
               /\ result = Apply(called, search_id,
                                 ReplaceSeg(value, i,
                                            kv(search_id \o bracket(op_eq), SegVal(ps[i]))))
               /\ (called = "from_str" /\ IsOk(result) /\ Len(ps) = 1)
                      => Unwrap(result)[1][1] = op_eq

\* a successful extraction from two segments, one of them "id=v"
C8_Witness ==
    /\ called = "from_str"
    /\ IsOk(result)
    /\ Len(Unwrap(result)) >= 1
    /\ Len(Segments(value)) = 2
    /\ \E i \in 1..2 : SegHasEq(Segments(value)[i]) /\ SegKey(Segments(value)[i]) = search_id

----------------------------------------------------------------------------
(* C9                                                                      *)

\* C9: on success the extractor's output is, entry for entry and in order of
\* appearance, the (operator code, converted value) of the segments addressed
\* to the target; nothing is reordered, merged or de-duplicated.  The list of
\* NumberFilters has one entry per such segment as well.
C9_OneEntryPerMatchInOrder ==
    LET m == Matching(search_id, value)
    IN /\ (called = "from_str" /\ IsOk(result))
              => Unwrap(result) =
                     [i \in 1..Len(m) |->
                         <<SegOp(m[i]), parse("i32", SegVal(m[i]))[1]>>]
       /\ (called = "NumberFilters::from_str" /\ IsOk(result))
              => Len(Unwrap(result).filters) = Len(m)

\* two segments with the same operator code and different values, both kept
C9_Witness ==
    /\ called = "from_str"
    /\ IsOk(result)
    /\ Len(Unwrap(result)) = 2
    /\ Unwrap(result)[1][1] = Unwrap(result)[2][1]
    /\ Unwrap(result)[1][2] # Unwrap(result)[2][2]

----------------------------------------------------------------------------
(* C10                                                                     *)

\* C10: on the empty string the extractor returns the empty sequence for
\* every target id and instantiation, and FromQueryFilter::from_str succeeds
\* with empty lists, no EqualFilter value and no order_by, limit or skip.
C10_EmptyQueryNeverFails ==
    value = <<>> =>
        /\ \A T \in Instantiations : from_str(T, search_id, value) = Ok(<<>>)
        /\ called = "from_str" => result = Ok(<<>>)
        /\ called = "FromQueryFilter::from_str" =>
               /\ IsOk(result)
               /\ Unwrap(result).inner.name.filters = <<>>
               /\ Unwrap(result).inner.age.filters = <<>>
               /\ Unwrap(result).inner.active.value = None
               /\ Unwrap(result).order_by = None
               /\ Unwrap(result).limit = None
               /\ Unwrap(result).skip = None

\* the composed parse of the empty string has returned
C10_Witness ==
    /\ value = <<>>
    /\ called = "FromQueryFilter::from_str"
    /\ IsOk(result)

----------------------------------------------------------------------------
(* C11                                                                     *)

DirectiveEntries == {"Limit::from_str", "Skip::from_str", "OrderBy::from_str"}

\* the reserved key an entry point of a directive looks up
DirectiveKey(entry) ==
    CASE entry = "Limit::from_str" -> kw_limit
      [] entry = "Skip::from_str" -> kw_skip
      [] entry = "OrderBy::from_str" -> kw_order_by

RECURSIVE DropLater(_, _, _)
\* the segments ps without those addressed to kw that follow the first one
\* addressed to kw (found: such a segment was already met)
DropLater(kw, ps, found) ==
    IF ps = <<>> THEN <<>>
    ELSE IF SegName(Head(ps)) = Some(kw)
         THEN (IF found THEN <<>> ELSE <<Head(ps)>>) \o DropLater(kw, Tail(ps), TRUE)
    ELSE <<Head(ps)>> \o DropLater(kw, Tail(ps), found)

\* C11: Limit::from_str, Skip::from_str and OrderBy::from_str return what they
\* return on the query without the segments addressed to their reserved key
\* that follow the first such segment (a later occurrence neither changes the
\* value nor makes the parse fail), and Ok(None) when the query holds only
\* segments of other fields.
C11_LaterOccurrencesIgnored ==
    called \in DirectiveEntries =>
    LET kw == DirectiveKey(called)
        ps == Segments(value)
    IN /\ result = ApplyDirective(called, None, join(DropLater(kw, ps, FALSE)))
       /\ (\A i \in 1..Len(ps) : SegOther(kw, ps[i])) => result = Ok(None)

----------------------------------------------------------------------------
(* C12                                                                     *)

ComposedEntries ==
    {"FromQueryFilter::<UserFilter>::from_str",
     "FromQueryFilter::<Filterable>::from_str"}

\* the segments of q that are erroneous for the composed parse `entry`: parsed
\* alone they make it fail
Erroneous(entry, q) ==
    {i \in 1..Len(Segments(q)) : IsErr(ApplyDirective(entry, None, Segments(q)[i]))}

\* the least element of a non-empty set of naturals
Min(S) == CHOOSE i \in S : \A j \in S : i <= j

\* C12: when the raw query holds several erroneous segments,
\* FromQueryFilter::from_str fails with the error kind of the leftmost one.
C12_LeftmostErrorWins ==
    called \in ComposedEntries =>
    LET bad == Erroneous(called, value)
    IN Cardinality(bad) >= 2 =>
           result = ApplyDirective(called, None, Segments(value)[Min(bad)])

----------------------------------------------------------------------------
(* C13                                                                     *)

\* the inner filter object of a composed entry point
TOf(entry) ==
    IF entry = "FromQueryFilter::<Filterable>::from_str" THEN T_Filterable
    ELSE T_UserFilter

\* the standalone parse of the order directive for T
StandaloneOrder(T, q) ==
    IF T_filter_id(T) = None THEN OrderBy_from_str(q)
    ELSE OrderBy_from_str_prefix(T_filter_id(T)[1], q)

\* C13: FromQueryFilter::from_str returns the error of the first of the
\* standalone parses order_by, limit, skip, inner T (in that order, all on the
\* same raw query) that fails, and when none fails Ok of the record of the four
\* standalone results; it returns nothing else.
C13_StepsInOrder ==
    called \in ComposedEntries =>
    LET T == TOf(called)
        o == StandaloneOrder(T, value)
        l == Limit_from_str(value)
        k == Skip_from_str(value)
        i == T_from_str(T, value)
    IN /\ IsErr(o) => result = o
       /\ (IsOk(o) /\ IsErr(l)) => result = l
       /\ (IsOk(o) /\ IsOk(l) /\ IsErr(k)) => result = k
       /\ (IsOk(o) /\ IsOk(l) /\ IsOk(k) /\ IsErr(i)) => result = i
       /\ (IsOk(o) /\ IsOk(l) /\ IsOk(k) /\ IsOk(i)) =>
              result = Ok([order_by |-> Unwrap(o), limit |-> Unwrap(l),
                           inner |-> Unwrap(i), skip |-> Unwrap(k)])
       /\ IsOk(result) \/ IsErr(result)

\* a composed parse in which the order directive and the limit both fail, with
\* different errors, and the error of the order directive is returned
C13_Witness ==
    /\ called \in ComposedEntries
    /\ OrderBy_from_str(value) = Err(UnknownFilter)
    /\ Limit_from_str(value) = Err(Value)
    /\ result = Err(UnknownFilter)

----------------------------------------------------------------------------
(* C14                                                                     *)

\* C14: StringFilters::from_id_value on an identifier
\* WithPrefixAndAlias(scope, name, alias) extracts the segments whose key
\* names the alias: the filters are those the extractor finds for the alias.
C14_AliasLocatesField ==
    (/\ called = "StringFilters::from_id_value"
     /\ filter_id[1][1] = "WithPrefixAndAlias")
    => LET r == from_str(StringFilter_String, filter_id[1][4], value)
       IN IF IsErr(r) THEN result = r
          ELSE result = Ok(Filters(Unwrap(r), filter_id))

----------------------------------------------------------------------------
(* C15                                                                     *)

IdEntries ==
    {"NumberFilters::from_id_value", "StringFilters::from_id_value",
     "EqualFilter::from_id_value"}

\* the name, the alias (if any) and the scope (if any) of an identifier
IdName(f) == IF f[1] = "Alone" THEN f[2] ELSE f[3]
IdAlias(f) == IF f[1] = "WithPrefixAndAlias" THEN Some(f[4]) ELSE None
IdScope(f) == IF f[1] = "Alone" THEN None ELSE Some(f[2])

\* C15: from_id_value of the three families on any identifier returns what it
\* returns on the bare identifier Alone(name), with the supplied identifier
\* in place of the bare one (so neither the scope nor the alias takes part in
\* the lookup); the emission name is the alias when there is one and the name
\* otherwise.
C15_LookupByName ==
    called \in IdEntries =>
    LET f == filter_id[1]
        bare == ApplyId(called, Alone(IdName(f)), value)
    IN /\ IsErr(bare) => result = bare
       /\ IsOk(bare) => result = Ok([Unwrap(bare) EXCEPT !.id = Some(f)])
       /\ FilterId_id(f) = IdName(f)
       /\ FilterId_key(f) = IF IdAlias(f) = None THEN IdName(f) ELSE IdAlias(f)[1]

\* an aliased, scoped identifier parsed on a query with a segment keyed by the
\* name and one keyed by the alias: only the former is extracted
C15_Witness ==
    /\ called = "NumberFilters::from_id_value"
    /\ IdAlias(filter_id[1]) # None
    /\ \E i \in 1..Len(Segments(value)) :
           SegName(Segments(value)[i]) = IdAlias(filter_id[1])
    /\ \E i \in 1..Len(Segments(value)) :
           SegName(Segments(value)[i]) = Some(IdName(filter_id[1]))
    /\ IsOk(result)
    /\ Len(Unwrap(result).filters) = 1
    /\ Unwrap(result).id = filter_id

----------------------------------------------------------------------------
(* C16                                                                     *)

\* f with its scope replaced by p
Rescoped(f, p) == [f EXCEPT ![2] = p]

\* C16: the text apply appends for a filter or an order directive whose
\* identifier carries a scope depends on that scope: with the same identifier
\* under another scope, apply appends a different text.
C16_ScopeInColumnReference ==
    /\ (/\ called = "NumberFilters::apply"
        /\ IdScope(filter_id[1]) # None
        /\ Unwrap(result).filters # <<>>)
       => \A p \in Prefixes \ {IdScope(filter_id[1])[1]} :
              NumberFilters_apply(
                  [Unwrap(result) EXCEPT !.id = Some(Rescoped(filter_id[1], p))],
                  QueryBuilder_new).text # sql.text
    /\ called = "OrderBy::apply"
       => \A p \in Prefixes \ {prefix_arg[1]} :
              OrderBy_apply(<<Unwrap(result)[1][1], Rescoped(Unwrap(result)[1][2], p)>>,
                            QueryBuilder_new).text # sql.text

----------------------------------------------------------------------------
(* C17                                                                     *)

\* the i-th segment is the first one addressed to sid
FirstMatch(sid, ps, i) ==
    /\ SegMatches(sid, ps[i])
    /\ \A j \in 1..(i - 1) : ~SegMatches(sid, ps[j])

\* no segment after the i-th makes the extractor fail
NoLaterError(T, sid, ps, i) ==
    \A j \in (i + 1)..Len(ps) : from_str_part(T, sid, ps[j]).tag # "Err"

\* C17: OrderBy::from_str, at the first segment addressed to order_by (no
\* earlier segment making the parse fail), fails with UnknownFilter when the
\* operator code is neither asc nor desc, the code eq of a segment without
\* operator included; for asc and value v it yields Asc(Alone(v)), for desc
\* Desc(Alone(v)), when no later segment makes the parse fail.
C17_OrderOperatorCodes ==
    called = "OrderBy::from_str" =>
    LET ps == Segments(value)
    IN \A i \in 1..Len(ps) :
           (FirstMatch(kw_order_by, ps, i)
            /\ NoEarlierError(OrderBy_String, kw_order_by, ps, i))
           => /\ (SegOp(ps[i]) = op_asc
                  /\ NoLaterError(OrderBy_String, kw_order_by, ps, i))
                 => result = Ok(Some(<<"Asc", Alone(SegVal(ps[i]))>>))
              /\ (SegOp(ps[i]) = op_desc
                  /\ NoLaterError(OrderBy_String, kw_order_by, ps, i))
                 => result = Ok(Some(<<"Desc", Alone(SegVal(ps[i]))>>))
              /\ SegOp(ps[i]) \notin {op_asc, op_desc}
                 => result = Err(UnknownFilter)

\* an order_by segment written without an operator, after a segment of
\* another field: UnknownFilter
C17_Witness ==
    /\ called = "OrderBy::from_str"
    /\ Len(Segments(value)) = 2
    /\ SegOther(kw_order_by, Segments(value)[1])
    /\ SegKey(Segments(value)[2]) = kw_order_by
    /\ SegHasEq(Segments(value)[2])
    /\ result = Err(UnknownFilter)

----------------------------------------------------------------------------
(* C18                                                                     *)

\* the directive x with its bare identifier put under the scope p
Scoped(p, x) == <<x[1], WithPrefix(p, x[2][2])>>

\* C18: OrderBy::from_str_prefix(p, q) never panics; it returns the error or
\* the Ok(None) of OrderBy::from_str(q) unchanged, and for Ok(Some(Asc(Alone(v))))
\* / Ok(Some(Desc(Alone(v)))) the same directive on WithPrefix(p, v).
\* FromQueryFilter::<T>::from_str stores the directive of from_str_prefix with
\* prefix T::filter_id() when that is Some, of from_str when it is None.
C18_RescopingExact ==
    /\ called = "OrderBy::from_str_prefix" =>
       LET r == OrderBy_from_str(value)
       IN /\ result # Panic
          /\ IsErr(r) => result = r
          /\ r = Ok(None) => result = Ok(None)
          /\ (IsOk(r) /\ r # Ok(None)) =>
                 /\ Unwrap(r)[1][2][1] = "Alone"
                 /\ result = Ok(Some(Scoped(prefix_arg[1], Unwrap(r)[1])))
    /\ (called \in ComposedEntries /\ IsOk(result)) =>
       LET r == OrderBy_from_str(value)
           fid == T_filter_id(TOf(called))
       IN /\ IsOk(r)
          /\ Unwrap(result).order_by =
                 IF fid = None \/ r = Ok(None) THEN Unwrap(r)
                 ELSE Some(Scoped(fid[1], Unwrap(r)[1]))
    /\ called \in ComposedEntries => result # Panic

\* a descending directive re-scoped to the prefix
C18_Witness ==
    /\ called = "OrderBy::from_str_prefix"
    /\ prefix_arg = Some(users)
    /\ result = Ok(Some(<<"Desc", WithPrefix(users, age)>>))

----------------------------------------------------------------------------
(* C19                                                                     *)

\* the key is sid followed by one bracketed operator code, whatever the code
Bracketed(sid, key) ==
    /\ Len(key) >= Len(sid) + 3
    /\ SubSeq(key, 1, Len(sid)) = sid
    /\ key[Len(sid) + 1] = "["
    /\ key[Len(key)] = "]"
    /\ \A j \in (Len(sid) + 2)..(Len(key) - 1) : key[j] \notin {"[", "]"}

\* C19: EqualFilter::from_str never fails with UnknownFilter; replacing a
\* segment "id[op]=v" by "id=v" leaves its result unchanged, whatever the
\* operator code, and on the single segment "id[op]=v" with a convertible v it
\* returns the filter holding v.
C19_AnyOperatorIsEquality ==
    called = "EqualFilter::from_str" =>
    LET ps == Segments(value)
    IN /\ result # Err(UnknownFilter)
       /\ \A i \in 1..Len(ps) :
              (SegHasEq(ps[i]) /\ Bracketed(search_id, SegKey(ps[i]))) =>
                  /\ result = EqualFilter_from_str(
                                  "i32", search_id,
                                  ReplaceSeg(value, i, kv(search_id, SegVal(ps[i]))))
                  /\ (Len(ps) = 1 /\ parse("i32", SegVal(ps[i])) # None) =>
                         result = Ok(EqualFilter(parse("i32", SegVal(ps[i])),
                                                 Some(Alone(search_id))))

\* a single segment with an operator code no other family knows
C19_Witness ==
    /\ called = "EqualFilter::from_str"
    /\ value = kv(search_id \o bracket(op_near), <<"1">>)
    /\ result = Ok(EqualFilter(Some(1), Some(Alone(search_id))))

----------------------------------------------------------------------------
(* C20                                                                     *)

\* C20: every parse of the same raw query by the same entry point returned
\* the same result, whatever was parsed before it and whether or not the
\* token grammar was initialised when it ran; the result last returned is the
\* one a further parse would return now; the grammar cell is unset or holds
\* the one grammar.
C20_ParsingIsHistoryIndependent ==
    /\ \A a \in seen : \A b \in seen : a[1] = b[1] => a[2] = b[2]
    /\ called # "none" => result = Apply(called, search_id, value)
    /\ QUERY_REGEX \in {None, Some(Regex_new)}

\* two entry points have parsed a query that reaches the token matcher, which
\* left the grammar initialised
C20_Witness ==
    /\ Cardinality(seen) >= 2
    /\ from_str_reaches_regex(value)
    /\ QUERY_REGEX = Some(Regex_new)
    /\ IsOk(result)
    /\ called = "NumberFilters::from_str"
    /\ Unwrap(result).filters # <<>>

----------------------------------------------------------------------------
(* Threads calling query_regex() at the same time (src/src/regex.rs:5-9). *)
(* QUERY_REGEX.get_or_init(f) is std::sync::OnceLock: a fast path that     *)
(* returns the stored value when the Once is COMPLETE, and otherwise       *)
(* Once::call_once_force, which lets one thread move the Once from         *)
(* INCOMPLETE to RUNNING, run f and write the slot, while the others wait  *)
(* for COMPLETE.  The write of the slot is not atomic: it is two steps.    *)

NThreads == 3

MaxCalls == 2

Threads == 1 .. NThreads

\* the slot while the compiled grammar is being written into it
Regex_partial == "(\\w+)"

\* Once::call_once_force lets every thread that has not seen COMPLETE run f
Once_may_run_unguarded(state) == state # "COMPLETE"

\* Once::call_once_force: the thread that finds INCOMPLETE runs f
Once_may_run(state) == state = "INCOMPLETE"

\* Once::call_once_force: a thread that finds RUNNING waits
Once_must_wait(state) == state = "RUNNING" /\ ~Once_may_run(state)

InitThreads ==
    /\ called = "none"
    /\ search_id = <<>>
    /\ value = <<>>
    /\ result = NoResult
    /\ filter_id = None
    /\ prefix_arg = None
    /\ QUERY_REGEX = None
    /\ sql = QueryBuilder_new
    /\ seen = {}
    /\ pc = [t \in Threads |-> "idle"]
    /\ got = [t \in Threads |-> <<>>]
    /\ once = "INCOMPLETE"
    /\ inits = 0
    /\ decl = <<>>
    /\ uri_query = None
    /\ response = None

Step(t, to) ==
    /\ pc' = [pc EXCEPT ![t] = to]
    /\ UNCHANGED <<called, search_id, value, result, filter_id, prefix_arg,
                   sql, seen, decl, uri_query, response>>

\* a thread calls query_regex()
Enter(t) ==
    /\ pc[t] = "idle"
    /\ Len(got[t]) < MaxCalls
    /\ Step(t, "get_or_init")
    /\ UNCHANGED <<QUERY_REGEX, got, once, inits>>

\* OnceLock::get_or_init: if self.is_initialized() return the value
FastPath(t) ==
    /\ pc[t] = "get_or_init"
    /\ Step(t, IF once = "COMPLETE" THEN "get" ELSE "call_once")
    /\ UNCHANGED <<QUERY_REGEX, got, once, inits>>

\* Once::call_once_force: take the Once, or find it COMPLETE; a thread that
\* must wait takes no step
CallOnce(t) ==
    /\ pc[t] = "call_once"
    /\ ~Once_must_wait(once)
    /\ Step(t, IF Once_may_run(once) THEN "init" ELSE "get")
    /\ once' = IF Once_may_run(once) THEN "RUNNING" ELSE once
    /\ UNCHANGED <<QUERY_REGEX, got, inits>>

\* the initialiser: Regex::new(...).unwrap(), and the start of the write
RunInit(t) ==
    /\ pc[t] = "init"
    /\ Step(t, "write")
    /\ inits' = inits + 1
    /\ QUERY_REGEX' = Some(Regex_partial)
    /\ UNCHANGED <<got, once>>

\* the end of the write of the slot
Write(t) ==
    /\ pc[t] = "write"
    /\ Step(t, "complete")
    /\ QUERY_REGEX' = Some(Regex_new)
    /\ UNCHANGED <<got, once, inits>>

\* the Once becomes COMPLETE and the waiting threads are released
Complete(t) ==
    /\ pc[t] = "complete"
    /\ Step(t, "get")
    /\ once' = "COMPLETE"
    /\ UNCHANGED <<QUERY_REGEX, got, inits>>

\* get_unchecked: the caller receives what the slot holds
Get(t) ==
    /\ pc[t] = "get"
    /\ Step(t, "idle")
    /\ got' = [got EXCEPT ![t] = Append(@, QUERY_REGEX)]
    /\ UNCHANGED <<QUERY_REGEX, once, inits>>

NextThreads ==
    \E t \in Threads :
        \/ Enter(t)
        \/ FastPath(t)
        \/ CallOnce(t)
        \/ RunInit(t)
        \/ Write(t)
        \/ Complete(t)
        \/ Get(t)

SpecThreads == InitThreads /\ [][NextThreads]_vars

\* C21: under any interleaving of threads calling query_regex(), the token
\* grammar is initialised at most once, no caller receives an unset or a
\* partly written grammar, every caller receives the same grammar, and the
\* slot is never written again once the initialisation is complete.
C21_InitialisedOnce ==
    /\ [](/\ inits <= 1
          /\ \A t \in DOMAIN got : \A i \in 1 .. Len(got[t]) :
                 got[t][i] = Some(Regex_new))
    /\ [][once = "COMPLETE" => QUERY_REGEX' = QUERY_REGEX]_vars

\* two threads have both received the grammar, one of them after waiting
\* for the other's initialisation
C21_Witness ==
    /\ inits = 1
    /\ \E t, u \in DOMAIN got :
           /\ t # u
           /\ Len(got[t]) = MaxCalls
           /\ Len(got[u]) >= 1

\* C22: the request extractor parses the URI's query component, or the empty
\* text when the URI has none, with FromQueryFilter::from_str; it yields the
\* parsed value exactly when that parse succeeds, and every kind of parse
\* error is answered with status 400 (never a success, never a server error).
C22_ExtractorRejectsWith400 ==
    called = "FromQueryFilter::from_request_parts" =>
        LET parsed == FromQueryFilter_from_str(
                          T_UserFilter,
                          IF uri_query = None THEN <<>> ELSE uri_query[1])
        IN /\ parsed.tag \in {"Ok", "Err"}
           /\ IsOk(parsed) => result = parsed /\ response = None
           /\ IsErr(parsed) =>
                  /\ parsed.e \in FilterParseError
                  /\ IsErr(result)
                  /\ result.e = <<"FilterRejection", parsed.e>>
                  /\ response # None
                  /\ response[1].status = 400

\* a request whose query holds an unconvertible value has been rejected
C22_Witness ==
    /\ called = "FromQueryFilter::from_request_parts"
    /\ uri_query # None
    /\ IsErr(result)
    /\ result.e[2] = Value
    /\ response # None
    /\ response[1].status = 400

\* the text and the arguments of two emissions, one after the other
Cat(a, b) == [text |-> a.text \o b.text, args |-> a.args \o b.args]

RECURSIVE Fragments(_, _, _)
\* one " AND <col> <operator> ?" and one bound value per stored pair, in the
\* stored order; string tells the two families apart
Fragments(filters, col, string) ==
    IF filters = <<>> THEN QueryBuilder_new
    ELSE Cat([text |-> sql_and \o col
                       \o (IF string THEN StringFilter_sql(Head(filters)[1])
                           ELSE NumberFilter_sql(Head(filters)[1]))
                       \o <<"?">>,
              args |-> <<IF string
                         THEN StringFilter_bound(Head(filters)[1], Head(filters)[2])
                         ELSE Head(filters)[2]>>],
             Fragments(Tail(filters), col, string))

FamilyFragments(f, string) ==
    IF f.id = None THEN QueryBuilder_new
    ELSE Fragments(f.filters, FilterId_key(f.id[1]), string)

EqualFragment(f) ==
    IF f.value = None \/ f.id = None THEN QueryBuilder_new
    ELSE [text |-> sql_and \o FilterId_key(f.id[1]) \o sql_eq \o <<"?">>,
          args |-> <<f.value[1]>>]

OrderClause(o) ==
    IF o = None THEN QueryBuilder_new
    ELSE [text |-> sql_order_by \o FilterId_key(o[1][2])
                   \o (IF o[1][1] = "Asc" THEN sql_asc ELSE sql_desc),
          args |-> <<>>]

PageClause(keyword, p) ==
    IF p = None THEN QueryBuilder_new
    ELSE [text |-> keyword \o <<"?">>, args |-> <<p[1][2]>>]

\* C23: FromQueryFilter::apply appends the inner filter's predicates first,
\* then the ORDER BY clause, then LIMIT, then OFFSET, each only if present;
\* each NumberFilters / StringFilters value appends exactly one
\* " AND <emission name> <operator> <bound value>" per stored pair in the
\* stored order; an EqualFilter without a value, and a filter without an
\* identifier, append nothing.
C23_EmissionOrder ==
    called = "FromQueryFilter::apply" =>
        LET self == Unwrap(result)
        IN sql = Cat(FamilyFragments(self.inner.name, TRUE),
                 Cat(FamilyFragments(self.inner.age, FALSE),
                 Cat(EqualFragment(self.inner.active),
                 Cat(OrderClause(self.order_by),
                 Cat(PageClause(sql_limit, self.limit),
                     PageClause(sql_offset, self.skip))))))

\* a filter holding two age pairs with different operators has been emitted,
\* and so has one with an inner predicate and an order clause
C23_Witness ==
    /\ called = "FromQueryFilter::apply"
    /\ \/ /\ Len(Unwrap(result).inner.age.filters) = 2
          /\ Unwrap(result).inner.age.filters[1] # Unwrap(result).inner.age.filters[2]
          /\ Unwrap(result).inner.age.id # None
       \/ /\ Unwrap(result).inner.active.value # None
          /\ Unwrap(result).order_by # None
    /\ Len(sql.args) >= 1

----------------------------------------------------------------------------
(* #[derive(Filterable)] (src/filtrum-derive/src/lib.rs): the code the     *)
(* macro generates for a struct declaration, evaluated on a query.  A      *)
(* declaration is the struct-level table and the fields in order; a field  *)
(* is FieldMacroArgs with the last segment of its type path (ty) and the   *)
(* value type of its filter (V).                                           *)

FieldMacroArgs(ident, ty, V, table, alias, skip) ==
    [ident |-> ident, ty |-> ty, V |-> V, table |-> table, alias |-> alias,
     skip |-> skip]

\* if ident == "NumberFilters" {..} if ident == "StringFilters" {..} else None
FilterType(f) ==
    CASE f.ty = "NumberFilters" -> "Number"
      [] f.ty = "StringFilters" -> "String"
      [] OTHER -> "None"

\* create_search_id: match alias { Some(alias) => WithPrefixAndAlias(table,
\* ident, alias), None => WithPrefix(table, ident) }
create_search_id(table, ident, alias) ==
    IF alias # None THEN WithPrefixAndAlias(table, ident, alias[1])
    ELSE WithPrefix(table, ident)

\* fields_as_filters: the statement generated for one field, run on s;
\* custom_table holds the fields that set `table`
fields_as_filters(f, s) ==
    CASE FilterType(f) = "Number" /\ f.table # None ->
             NumberFilters_from_id_value(
                 create_search_id(f.table[1], f.ident, f.alias), s)
      [] FilterType(f) = "Number" /\ f.table = None ->
             NumberFilters_from_str(f.ident, s)
      [] FilterType(f) = "String" /\ f.table # None ->
             StringFilters_from_id_value(
                 create_search_id(f.table[1], f.ident, f.alias), s)
      [] FilterType(f) = "String" /\ f.table = None ->
             StringFilters_from_str(f.ident, s)
      [] FilterType(f) = "None" /\ f.table # None ->
             EqualFilter_from_id_value(
                 f.V, create_search_id(f.table[1], f.ident, f.alias), s)
      [] FilterType(f) = "None" /\ f.table = None ->
             EqualFilter_from_str(f.V, f.ident, s)

\* Default::default() of a field's type
Default_default(f) ==
    CASE f.ty \in {"NumberFilters", "StringFilters"} -> Filters(<<>>, None)
      [] f.ty = "EqualFilter" -> EqualFilter(None, None)
      [] OTHER -> <<>>

RECURSIVE skipped_fields(_)
\* skipped_fields: `#x: Default::default()` for every field with skip
skipped_fields(fields) ==
    IF fields = <<>> THEN <<>>
    ELSE IF Head(fields).skip
    THEN (Head(fields).ident :> Default_default(Head(fields)))
         @@ skipped_fields(Tail(fields))
    ELSE skipped_fields(Tail(fields))

RECURSIVE derive_statements(_, _, _)
RECURSIVE derive_bind(_, _, _, _)

\* `let #var_name = ...?;` : an error returns, a value is bound to the field
derive_bind(fields, s, self, r) ==
    IF IsErr(r) THEN r
    ELSE derive_statements(Tail(fields), s,
                           self @@ (Head(fields).ident :> Unwrap(r)))

\* #(#fields_as_filters)* Ok(Self { #(#all_fields),* }) over the fields that
\* are not skipped, in declaration order
derive_statements(fields, s, self) ==
    IF fields = <<>> THEN Ok(self)
    ELSE IF Head(fields).skip THEN derive_statements(Tail(fields), s, self)
    ELSE derive_bind(fields, s, self, fields_as_filters(Head(fields), s))

\* the generated impl FromStr
derive_from_str(d, s) == derive_statements(d.fields, s, skipped_fields(d.fields))

\* the generated impl WithFilterId: Some(#table) or None
derive_filter_id(d) == d.table

t_table == <<"t">>
n_alias == <<"n">>

\* the field declarations: three fields of the struct of
\* tests/derive_tests.rs under every combination of attributes, and its
\* skipped String field
FieldDecls ==
    {FieldMacroArgs(f[1], f[2], f[3], tb, al, sk) :
        f \in {<<name, "StringFilters", "String">>,
               <<age, "NumberFilters", "i32">>,
               <<is_active, "EqualFilter", "bool">>},
        tb \in {None, Some(t_table)}, al \in {None, Some(n_alias)},
        sk \in BOOLEAN}
    \cup {FieldMacroArgs(<<"i","g","n","o","r","e","d">>, "String", "String",
                         None, None, TRUE)}

\* structs of one or two fields with different names
Decls ==
    {[table |-> tb, fields |-> fs] :
        tb \in {None, Some(users)},
        fs \in {<<f>> : f \in FieldDecls}
               \cup {<<f, g>> : f \in {x \in FieldDecls : x.ident = name},
                                g \in {x \in FieldDecls : x.ident # name}}}

DeriveQueries ==
    {<<>>,
     kv(name \o bracket(op_eq), <<"A">>),
     kv(n_alias, <<"A">>),
     kv(age \o bracket(<<"g","t","e">>), <<"1","8">>),
     kv(is_active, true_text),
     kv(age, <<"x">>),
     join(<<kv(name \o bracket(op_eq), <<"A">>), kv(is_active, true_text)>>)}

InitDerive ==
    /\ called = "none"
    /\ search_id = <<>>
    /\ value \in DeriveQueries
    /\ result = NoResult
    /\ filter_id = None
    /\ prefix_arg = None
    /\ QUERY_REGEX = None
    /\ sql = QueryBuilder_new
    /\ seen = {}
    /\ pc = <<>>
    /\ got = <<>>
    /\ once = "INCOMPLETE"
    /\ inits = 0
    /\ decl \in Decls
    /\ uri_query = None
    /\ response = None

\* <T as FromStr>::from_str(value) of the derived T
DeriveFromStr ==
    /\ called = "none"
    /\ called' = "Filterable::from_str"
    /\ result' = derive_from_str(decl, value)
    /\ QUERY_REGEX' = IF \E i \in 1 .. Len(decl.fields) : ~decl.fields[i].skip
                      THEN QUERY_REGEX_after(value) ELSE QUERY_REGEX
    /\ UNCHANGED <<search_id, value, filter_id, prefix_arg, sql, seen, pc, got,
                   once, inits, decl, uri_query, response>>

\* <T as WithFilterId>::filter_id() of the derived T
DeriveFilterId ==
    /\ called = "none"
    /\ called' = "Filterable::filter_id"
    /\ result' = Ok(derive_filter_id(decl))
    /\ UNCHANGED <<search_id, value, filter_id, prefix_arg, QUERY_REGEX, sql,
                   seen, pc, got, once, inits, decl, uri_query, response>>

NextDerive ==
    \/ DeriveFromStr
    \/ DeriveFilterId

SpecDerive == InitDerive /\ [][NextDerive]_vars

\* the fields of the declaration
DeclFields == {decl.fields[i] : i \in 1 .. Len(decl.fields)}

\* C24: the parse routine generated by derive(Filterable) gives every field
\* that is not skipped the bare identifier Alone(field name) when the field
\* declares neither a table nor an alias, and otherwise an identifier that
\* carries the declared table and the declared alias, so that a declared
\* alias is the field's emission name; it calls the family of the field's
\* type, gives skipped fields their default value whatever the query, and
\* filter_id() reports the struct-level table.
C24_DerivedIdentifiers ==
    /\ called = "Filterable::filter_id" => result = Ok(decl.table)
    /\ called = "Filterable::from_str" /\ IsOk(result) =>
           /\ DOMAIN Unwrap(result) = {f.ident : f \in DeclFields}
           /\ \A f \in DeclFields :
                  LET x == Unwrap(result)[f.ident]
                  IN IF f.skip THEN x = Default_default(f)
                     ELSE /\ x.id # None
                          /\ f.table = None /\ f.alias = None =>
                                 x.id[1] = Alone(f.ident)
                          /\ f.table # None =>
                                 FilterId_prefix(x.id[1]) = f.table
                          /\ f.alias # None =>
                                 FilterId_key(x.id[1]) = f.alias[1]
                          /\ FilterId_id(x.id[1]) = f.ident
                          /\ (f.ty = "EqualFilter") <=> ("value" \in DOMAIN x)

----------------------------------------------------------------------------
(* C25                                                                     *)

StringOps ==
    {op_eq, op_ne, op_like, op_l, op_not_like, op_nl, op_starts_with, op_sw,
     op_ends_with, op_ew, op_contains, op_c}

\* the operator codes the family behind an entry point decodes
FamilyOps(entry) ==
    IF entry = "NumberFilters::from_str" THEN NumberOps ELSE StringOps

\* the segment, addressed to sid, carries an operator code the family does
\* not know
SegUnknownOp(entry, sid, p) ==
    SegMatches(sid, p) /\ SegOp(p) \notin FamilyOps(entry)

\* the segment makes extraction fail: no '=', no field name in the key, or
\* addressed to sid with a value that does not convert
SegExtractionError(entry, sid, p) ==
    \/ ~SegStructured(p)
    \/ SegMatches(sid, p) /\ parse(InstOf(entry).V, SegVal(p)) = None

\* C25: NumberFilters::from_str / StringFilters::from_str extract the whole
\* query before decoding any operator: a query holding, for the target, a
\* segment with an unknown operator code and, anywhere, a segment with a
\* structural or value error fails with that structural or value error, and
\* UnknownFilter is returned only when no segment has such an error.
C25_ExtractionBeforeDecoding ==
    called \in {"NumberFilters::from_str", "StringFilters::from_str"} =>
    LET ps == Segments(value)
        unknown == \E i \in 1..Len(ps) : SegUnknownOp(called, search_id, ps[i])
        broken == \E i \in 1..Len(ps) :
                      SegExtractionError(called, search_id, ps[i])
    IN /\ (unknown /\ broken) => result \in {Err(FilterStructure), Err(Value)}
       /\ result = Err(UnknownFilter) => ~broken

----------------------------------------------------------------------------
(* C26                                                                     *)

\* the key of the segment without its index group
SegKeyNoIndex(p) ==
    LET g == Grammar(SegKey(p))
    IN g.name \o (IF g.op = None THEN <<>> ELSE bracket(g.op[1]))

\* C26: the trailing index group is inert: in every family and surrounding
\* query a segment "id[op][d]=v" gives the same result as "id[op]=v" in its
\* place, and "id[d]=v" the same as "id=v"; for every key of the grammar the
\* token matcher reports exactly its field name, its operator code (or none)
\* and its index (or none).
C26_IndexIsInert ==
    called \in FamilyEntries =>
    LET ps == Segments(value)
    IN \A i \in 1..Len(ps) :
           (SegHasEq(ps[i]) /\ Grammar(SegKey(ps[i])).ok) =>
               /\ query_regex(SegKey(ps[i])) =
                      Some([g1 |-> Some(Grammar(SegKey(ps[i])).name),
                            g3 |-> Grammar(SegKey(ps[i])).op,
                            g5 |-> Grammar(SegKey(ps[i])).index])
               /\ Grammar(SegKey(ps[i])).index # None =>
                      result = Apply(called, search_id,
                                     ReplaceSeg(value, i,
                                                kv(SegKeyNoIndex(ps[i]),
                                                   SegVal(ps[i]))))

\* a successful parse of a query holding "age[lt][1]=v" or "age[7]=v" for
\* the target age
C26_Witness ==
    /\ called = "NumberFilters::from_str"
    /\ search_id = age
    /\ IsOk(result)
    /\ Len(Unwrap(result).filters) = 2
    /\ \E i \in 1..Len(Segments(value)) :
           /\ SegHasEq(Segments(value)[i])
           /\ Grammar(SegKey(Segments(value)[i])).ok
           /\ Grammar(SegKey(Segments(value)[i])).index # None

----------------------------------------------------------------------------
(* Pagination values over the whole u64 range: Limit::from_str and         *)
(* Skip::from_str followed by apply.                                       *)

\* 2^63
TWO_POW_63 == <<"9","2","2","3","3","7","2","0","3","6","8","5","4","7","7","5","8","0","8">>

PageValues == {<<"0">>, <<"1">>, I64_MAX, TWO_POW_63, U64_MAX, TWO_POW_64, <<"x">>}

PageParts == {kv(k, v) : k \in {kw_limit, kw_skip}, v \in PageValues}

PageQueries == {join(ps) : ps \in UNION {[1..k -> PageParts] : k \in 0..MaxParts}}

InitPagination ==
    /\ called = "none"
    /\ search_id = <<>>
    /\ value \in PageQueries
    /\ result = NoResult
    /\ filter_id = None
    /\ prefix_arg = None
    /\ QUERY_REGEX = None
    /\ sql = QueryBuilder_new
    /\ seen = {}
    /\ pc = <<>>
    /\ got = <<>>
    /\ once = "INCOMPLETE"
    /\ inits = 0
    /\ decl = <<>>
    /\ uri_query = None
    /\ response = None

\* Limit::from_str(value)
PageLimitFromStr == CallDirective("Limit::from_str", None)

\* Skip::from_str(value)
PageSkipFromStr == CallDirective("Skip::from_str", None)

\* <Limit as SqlxFilter>::apply on the parsed limit
LimitApply ==
    /\ called = "Limit::from_str"
    /\ IsOk(result)
    /\ Unwrap(result) # None
    /\ Emit("Limit::from_str", "Limit::apply", Limit_apply(Unwrap(result)[1], sql))

\* <Skip as SqlxFilter>::apply on the parsed skip
SkipApply ==
    /\ called = "Skip::from_str"
    /\ IsOk(result)
    /\ Unwrap(result) # None
    /\ Emit("Skip::from_str", "Skip::apply", Skip_apply(Unwrap(result)[1], sql))

NextPagination ==
    \/ PageLimitFromStr
    \/ PageSkipFromStr
    \/ LimitApply
    \/ SkipApply

SpecPagination == InitPagination /\ [][NextPagination]_vars

\* C27: for every u64 n that Limit::from_str / Skip::from_str accept, from 0
\* to 2^64-1, Limit::apply and Skip::apply bind a number equal to n: the
\* conversion from unsigned to signed 64 bits neither wraps nor changes the
\* sign.
C27_BoundValueIsParsedValue ==
    called \in {"Limit::apply", "Skip::apply"} =>
        /\ sql.args = <<Unwrap(result)[1][2]>>
        /\ sql.args[1][1] # "-"

====
